---- MODULE Spec2Model ----
(***************************************************************************)
(* Chord ring of distorage (src/distorage/server/dht/dht.py) together with *)
(* the successor-repair worker of src/distorage/server/app.py.             *)
(*                                                                         *)
(* One ring (one DhtID) is modelled.  Every handler is one action: the RPC *)
(* calls a handler makes are synchronous, so the callee's handler runs     *)
(* inside the caller's action.  Handlers are written as operators from a   *)
(* ring state record to a ring state record.                               *)
(***************************************************************************)
EXTENDS Integers, Sequences, FiniteSets, TLC

VARIABLES
    alive,          \* alive[n]: the peer process n is running and reachable
    known,          \* ServerManager.knwon_servers of each peer
    predecessor,    \* ChordNode._predecessor
    successor,      \* ChordNode._successor
    fingers,        \* ChordNode.fingers
    next,           \* ChordNode.next
    elems,          \* ChordNode.elems       (insertion-ordered dict)
    repl_elems,     \* ChordNode.repl_elems  (insertion-ordered dict)
    removed_elems,  \* ChordNode.removed_elems
    halted,         \* worker threads that no longer tick (uncaught exception or blocked)
    spinning,       \* handoff passes still looping in _update_elements
    repl_failed,    \* history: <<n, s, key>> whose latest store_replica RPC from n to s failed
    written,        \* history: what the last client store / remove of each key did
                    \* (joined: the peer it was issued at had a successor)
    ev,             \* history: response and notes of the last handler (tomb: the peer
                    \* that answered held a tombstone of the key; suppressed: the
                    \* stores a tombstone suppressed; promoted: the replicas
                    \* that were promoted)
    budget,         \* remaining client operations / crashes
    disk,           \* files of each peer's host: dict from path to bytes
    data_elems,     \* elems of the ChordNode of the data ring (DhtID.DATA) where a
    data_repl_elems,     \* specification runs both rings; the fields above are
    data_removed_elems,  \* then those of the clients ring (DhtID.CLIENT)
    passwd,         \* ServerManager.passwd of each peer
    hashseed,       \* the seed of the built-in hash() of each peer's process
    dht_sessions,   \* DhtSessionService objects: sessions open on DHT listeners
    client_sessions, \* ClientSessionService objects: sessions open on client listeners
    setter          \* where a specification runs the successor setter of a peer
                    \* statement by statement: the position of the call in
                    \* "for key, val in self.repl_elems.items()"

\* The variables no handler of a ChordNode, run as one step, writes
host == <<data_elems, data_repl_elems, data_removed_elems, passwd, hashseed,
          dht_sessions, client_sessions, setter>>

vars == <<alive, known, predecessor, successor, fingers, next, elems,
          repl_elems, removed_elems, halted, spinning, repl_failed, written,
          ev, budget, disk, host>>

-----------------------------------------------------------------------------
(* Bounds *)

RingBits == 3          \* width of an identifier; 160 in the source
MaxClientOps == 2      \* client store / remove calls in one behaviour
MaxFailOps == 1        \* client store / remove calls in one behaviour with a failure
MaxCrashes == 1        \* peers that fail in one behaviour
MaxDhtSessions == 2    \* sessions open on the DHT listeners in one behaviour
MaxSessionCalls == 1   \* ring calls made on those sessions in one behaviour
MaxClientSessions == 2 \* sessions open on the client listeners in one behaviour
MaxClientCalls == 3    \* calls made on those sessions in one behaviour

-----------------------------------------------------------------------------
(* Universe *)

Node == {"a", "b", "c"}            \* peer IP strings
Key == {"k1", "k2", "a"}           \* key strings; a user may be named like a peer's IP
Value == {"v1", "v2"}
None == "None"
NoFinger == ""

\* sha1_hash: the identifiers of the strings in use.  Equal strings have equal
\* identifiers ("a" is both a peer and a key).
sha1_hash(value) ==
    CASE value = "a"  -> 1
      [] value = "b"  -> 4
      [] value = "c"  -> 6
      [] value = "k1" -> 2
      [] value = "k2" -> 7
      [] value = "alice" -> 0
      [] value = "alice:f1" -> 5
      [] value = "alice:f2" -> 3

Hash == {sha1_hash(k) : k \in Key}

-----------------------------------------------------------------------------
(* Python dict as a sequence of <<key, value>> pairs in insertion order *)

DictHas(d, k) == \E i \in 1..Len(d) : d[i][1] = k

DictGet(d, k) ==
    IF DictHas(d, k) THEN d[CHOOSE i \in 1..Len(d) : d[i][1] = k][2] ELSE None

DictSet(d, k, v) ==
    IF DictHas(d, k)
    THEN [i \in 1..Len(d) |-> IF d[i][1] = k THEN <<k, v>> ELSE d[i]]
    ELSE Append(d, <<k, v>>)

DictPop(d, k) == SelectSeq(d, LAMBDA e : e[1] # k)

DictKeys(d) == [i \in 1..Len(d) |-> d[i][1]]

KeySet(d) == {d[i][1] : i \in 1..Len(d)}

\* for key, val in src.items(): dst[key] = val
RECURSIVE DictUpdate(_, _)
DictUpdate(dst, src) ==
    IF src = <<>> THEN dst
    ELSE DictUpdate(DictSet(dst, Head(src)[1], Head(src)[2]), Tail(src))

-----------------------------------------------------------------------------
(* Ring state record handed through the handlers.  Besides the variables  *)
(* it carries, for the handler being run: exc, how the call chain ended    *)
(* ("none": returned; "raise": an exception other than                     *)
(* ServiceConnectionError is propagating; "block": the thread is blocked   *)
(* in a read; "stuck": the thread loops in _update_elements), stuck, the   *)
(* pass that loops, suppressed, the stores a tombstone suppressed, and     *)
(* promoted, the replicas that were promoted.                              *)

\* The dict a pass of _update_elements works on: the elems or the repl_elems
\* of its node, or (name "old") a dict object the node has replaced since
Elems == [name |-> "elems", old |-> <<>>]
ReplElems == [name |-> "repl_elems", old |-> <<>>]

NoTask == [node |-> "", dict |-> Elems, keys |-> <<>>, after |-> ""]

Cur ==
    [alive |-> alive, known |-> known, predecessor |-> predecessor,
     successor |-> successor, fingers |-> fingers, next |-> next,
     elems |-> elems, repl_elems |-> repl_elems, removed_elems |-> removed_elems,
     halted |-> halted, spinning |-> spinning, repl_failed |-> repl_failed,
     disk |-> disk, exc |-> "none", stuck |-> NoTask, suppressed |-> {}, promoted |-> {}]

Install(s) ==
    /\ alive' = s.alive
    /\ known' = s.known
    /\ predecessor' = s.predecessor
    /\ successor' = s.successor
    /\ fingers' = s.fingers
    /\ next' = s.next
    /\ elems' = s.elems
    /\ repl_elems' = s.repl_elems
    /\ removed_elems' = s.removed_elems
    /\ halted' = s.halted
    /\ spinning' = s.spinning
    /\ repl_failed' = s.repl_failed
    /\ disk' = s.disk

-----------------------------------------------------------------------------
(* Routing *)

_belongs(value, lower, upper) ==
    \/ (lower < value /\ value <= upper)
    \/ (lower > upper /\ (lower < value \/ value < upper))

\* Variant of closest_preceding_node that takes the last finger that is set
ClosestIsLastFinger(s, n, node_id) ==
    LET hit == {i \in 0..(RingBits - 1) : s.fingers[n][i] # NoFinger}
    IN  IF hit = {} THEN n
        ELSE s.fingers[n][CHOOSE i \in hit : \A j \in hit : j <= i]

closest_preceding_node(s, n, node_id) ==
    LET hit == {i \in 0..(RingBits - 1) :
                   /\ s.fingers[n][i] # NoFinger
                   /\ _belongs(sha1_hash(s.fingers[n][i]), sha1_hash(n), node_id)}
    IN  IF hit = {} THEN n
        ELSE s.fingers[n][CHOOSE i \in hit : \A j \in hit : j <= i]

MaxHops == Cardinality(Node)

\* DhtSession.__enter__: the connection is refused when the peer is down
Reachable(s, ip) == s.alive[ip]

\* Response of find_successor: (ip, ok).  hops is the number of RPC hops the
\* call may still make; a chain longer than the number of peers revisits one.
RECURSIVE find_successor(_, _, _, _)
ForwardFindSuccessor(s, n, node_id, hops, closest) ==
    IF closest = n THEN [ip |-> n, ok |-> TRUE, loop |-> FALSE]
    ELSE IF ~Reachable(s, closest) THEN [ip |-> "", ok |-> FALSE, loop |-> FALSE]
    ELSE IF hops = 0 THEN [ip |-> "", ok |-> FALSE, loop |-> TRUE]
    ELSE find_successor(s, closest, node_id, hops - 1)

find_successor(s, n, node_id, hops) ==
    IF _belongs(node_id, sha1_hash(n), sha1_hash(s.successor[n]))
    THEN [ip |-> s.successor[n], ok |-> TRUE, loop |-> FALSE]
    ELSE ForwardFindSuccessor(s, n, node_id, hops,
                              closest_preceding_node(s, n, node_id))

\* The peers that run find_successor(node_id) when it is called at n, in the
\* order of the RPC chain, cut after hops forwards
RECURSIVE FindSuccessorChain(_, _, _, _)
ForwardChain(s, n, node_id, hops, closest) ==
    IF closest = n \/ ~Reachable(s, closest) \/ hops = 0 THEN <<n>>
    ELSE <<n>> \o FindSuccessorChain(s, closest, node_id, hops - 1)

FindSuccessorChain(s, n, node_id, hops) ==
    IF _belongs(node_id, sha1_hash(n), sha1_hash(s.successor[n])) THEN <<n>>
    ELSE ForwardChain(s, n, node_id, hops, closest_preceding_node(s, n, node_id))

-----------------------------------------------------------------------------
(* Key-value store *)

\* (data, ok, msg) of response.py, with the state the handler leaves and the
\* peer that answered
Response(s, at, data, ok, msg) ==
    [st |-> s, at |-> at, data |-> data, ok |-> ok, msg |-> msg]

\* Variant of _save_element that returns the path without writing the file
SaveElementSkipsWrite(s, n, elem, persist_path) == s

\* The files of a host: _save_element writes elem at persist_path and returns
\* the path, _load_element returns the bytes at elem_path or None, _is_path
\* tells whether value names a file
_save_element(s, n, elem, persist_path) ==
    [s EXCEPT !.disk[n] = DictSet(@, persist_path, elem)]

_load_element(s, n, elem_path) == DictGet(s.disk[n], elem_path)

_is_path(s, n, value) == DictHas(s.disk[n], value)

\* Variant of store_replica that adds an entry without looking for the key
StoreReplicaAppends(s, n, hashed, elem, persist_path) ==
    [s EXCEPT !.repl_elems[n] = Append(@, <<hashed, elem>>)]

store_replica(s, n, hashed, elem, persist_path) ==
    IF persist_path # None
    THEN [_save_element(s, n, elem, persist_path)
              EXCEPT !.repl_elems[n] = DictSet(@, hashed, persist_path)]
    ELSE [s EXCEPT !.repl_elems[n] = DictSet(@, hashed, elem)]

remove_replica(s, n, hashed) ==
    [s EXCEPT !.repl_elems[n] = DictPop(@, hashed)]

\* The store_replica RPC that store and _resend_replica_to_successor send from
\* n to to, with its outcome kept in repl_failed
SendReplica(s, n, to, hashed, elem, persist_path) ==
    IF Reachable(s, to)
    THEN [store_replica(s, to, hashed, elem, persist_path)
              EXCEPT !.repl_failed = @ \ {<<n, to, hashed>>}]
    ELSE [s EXCEPT !.repl_failed = @ \cup {<<n, to, hashed>>}]

\* self.elems[hashed] = saved_elem, with the file written when persist_path
\* is given, and the tombstone of the key forgotten
SaveHere(s, n, hashed, elem, persist_path) ==
    IF persist_path # None
    THEN [_save_element(s, n, elem, persist_path)
              EXCEPT !.elems[n] = DictSet(@, hashed, persist_path),
                     !.removed_elems[n] = @ \ {hashed}]
    ELSE [s EXCEPT !.elems[n] = DictSet(@, hashed, elem),
                   !.removed_elems[n] = @ \ {hashed}]

\* Variant of WriteHere that writes nothing when the successor it is to send
\* the replica to cannot be reached
WriteHereReplicaFirst(s, n, hashed, elem, persist_path) ==
    IF s.successor[n] = n THEN SaveHere(s, n, hashed, elem, persist_path)
    ELSE IF ~Reachable(s, s.successor[n])
    THEN [s EXCEPT !.repl_failed = @ \cup {<<n, s.successor[n], hashed>>}]
    ELSE SendReplica(SaveHere(s, n, hashed, elem, persist_path),
                     n, s.successor[n], hashed, elem, persist_path)

\* The write of StoreHere and the replica it sends to the successor
WriteHere(s, n, hashed, elem, persist_path) ==
    IF s.successor[n] # n
    THEN SendReplica(SaveHere(s, n, hashed, elem, persist_path),
                     n, s.successor[n], hashed, elem, persist_path)
    ELSE SaveHere(s, n, hashed, elem, persist_path)

\* Variant of StoreHere that writes although the key is tombstoned
StoreHereUnchecked(s, n, hashed, elem, overwrite, check_removed, persist_path) ==
    IF ~overwrite /\ DictHas(s.elems[n], hashed)
    THEN Response(s, n, None, FALSE, "Element already exists")
    ELSE Response(WriteHere(s, n, hashed, elem, persist_path),
                  n, None, TRUE, "Element stored")

\* Variant of StoreHere that leaves the tombstone of the key it writes
StoreHereKeepsTombstone(s, n, hashed, elem, overwrite, check_removed, persist_path) ==
    IF ~overwrite /\ DictHas(s.elems[n], hashed)
    THEN Response(s, n, None, FALSE, "Element already exists")
    ELSE IF check_removed /\ hashed \in s.removed_elems[n]
    THEN Response([s EXCEPT !.suppressed = @ \cup {<<n, hashed>>}], n,
                  None, TRUE, "Element was removed in the past")
    ELSE Response(
            IF s.successor[n] # n
            THEN SendReplica([s EXCEPT !.elems[n] = DictSet(@, hashed, elem)],
                             n, s.successor[n], hashed, elem, persist_path)
            ELSE [s EXCEPT !.elems[n] = DictSet(@, hashed, elem)],
            n, None, TRUE, "Element stored")

\* Variant of StoreHere that writes although overwrite is not allowed
StoreHereOverwrites(s, n, hashed, elem, overwrite, check_removed, persist_path) ==
    IF check_removed /\ hashed \in s.removed_elems[n]
    THEN Response([s EXCEPT !.suppressed = @ \cup {<<n, hashed>>}], n,
                  None, TRUE, "Element was removed in the past")
    ELSE Response(WriteHere(s, n, hashed, elem, persist_path),
                  n, None, TRUE, "Element stored")

\* store at the peer that find_successor names as the owner: lines 462-495
StoreHere(s, n, hashed, elem, overwrite, check_removed, persist_path) ==
    IF ~overwrite /\ DictHas(s.elems[n], hashed)
    THEN Response(s, n, None, FALSE, "Element already exists")
    ELSE IF check_removed /\ hashed \in s.removed_elems[n]
    THEN Response([s EXCEPT !.suppressed = @ \cup {<<n, hashed>>}], n,
                  None, TRUE, "Element was removed in the past")
    ELSE Response(WriteHere(s, n, hashed, elem, persist_path),
                  n, None, TRUE, "Element stored")

\* store: hashed is sha1_hash(elem_key) for a string key and elem_key itself
\* for the integer key of a handoff
RECURSIVE store(_, _, _, _, _, _, _, _)
RouteStore(s, n, hashed, elem, overwrite, check_removed, persist_path, hops, succ) ==
    IF ~succ.ok THEN Response(s, n, None, FALSE, "Error finding successor")
    ELSE IF succ.ip = n
    THEN StoreHere(s, n, hashed, elem, overwrite, check_removed, persist_path)
    ELSE IF ~Reachable(s, succ.ip)
    THEN Response(s, n, None, FALSE, "Connection error to node")
    ELSE IF hops = 0
    THEN Response([s EXCEPT !.exc = "block"], n, None, FALSE, "loop")
    ELSE store(s, succ.ip, hashed, elem, overwrite, check_removed, persist_path,
               hops - 1)

store(s, n, hashed, elem, overwrite, check_removed, persist_path, hops) ==
    IF elem = None THEN Response(s, n, None, FALSE, "Element is None")
    ELSE RouteStore(s, n, hashed, elem, overwrite, check_removed, persist_path,
                    hops, find_successor(s, n, hashed, MaxHops))

\* Variant of RemoveHere that answers with an error, and keeps the key, when
\* the successor cannot be reached
RemoveHereNeedsReplica(s, n, hashed) ==
    IF Reachable(s, s.successor[n])
    THEN Response(remove_replica([s EXCEPT !.elems[n] = DictPop(@, hashed),
                                           !.repl_elems[n] = DictPop(@, hashed),
                                           !.removed_elems[n] = @ \cup {hashed}],
                                 s.successor[n], hashed),
                  n, None, TRUE, "Element removed")
    ELSE Response(s, n, None, FALSE, "Connection error to node")

\* remove at the owner: lines 551-561
RemoveHere(s, n, hashed) ==
    Response(
        IF Reachable(s, s.successor[n])
        THEN remove_replica([s EXCEPT !.elems[n] = DictPop(@, hashed),
                                      !.repl_elems[n] = DictPop(@, hashed),
                                      !.removed_elems[n] = @ \cup {hashed}],
                            s.successor[n], hashed)
        ELSE [s EXCEPT !.elems[n] = DictPop(@, hashed),
                       !.repl_elems[n] = DictPop(@, hashed),
                       !.removed_elems[n] = @ \cup {hashed}],
        n, None, TRUE, "Element removed")

RECURSIVE remove(_, _, _, _)
\* Variant of RouteRemove that leaves a tombstone at the peer whose forward
\* to the owner failed
RouteRemoveMarksFirst(s, n, hashed, hops, succ) ==
    IF ~succ.ok THEN Response(s, n, None, FALSE, "Error finding successor")
    ELSE IF succ.ip = n THEN RemoveHere(s, n, hashed)
    ELSE IF ~Reachable(s, succ.ip)
    THEN Response([s EXCEPT !.removed_elems[n] = @ \cup {hashed}],
                  n, None, FALSE, "Connection error to node")
    ELSE IF hops = 0
    THEN Response([s EXCEPT !.exc = "block"], n, None, FALSE, "loop")
    ELSE remove(s, succ.ip, hashed, hops - 1)

RouteRemove(s, n, hashed, hops, succ) ==
    IF ~succ.ok THEN Response(s, n, None, FALSE, "Error finding successor")
    ELSE IF succ.ip = n THEN RemoveHere(s, n, hashed)
    ELSE IF ~Reachable(s, succ.ip)
    THEN Response(s, n, None, FALSE, "Connection error to node")
    ELSE IF hops = 0
    THEN Response([s EXCEPT !.exc = "block"], n, None, FALSE, "loop")
    ELSE remove(s, succ.ip, hashed, hops - 1)

remove(s, n, hashed, hops) ==
    RouteRemove(s, n, hashed, hops, find_successor(s, n, hashed, MaxHops))

\* elem_key not in self.removed_elems: elem_key is the key string and
\* removed_elems holds integers, which no string equals
StrInRemoved(s, n, elem_key) == FALSE

\* find at the peer that find_successor names as the owner: lines 400-413
\* if is_file [and elem is not None]: elem = self._load_element(elem)
Loaded(s, n, elem, is_file) ==
    IF is_file /\ elem # None THEN _load_element(s, n, elem) ELSE elem

FindHere(s, n, elem_key, hashed, is_file) ==
    Response(s, n,
             IF StrInRemoved(s, n, elem_key) THEN None
             ELSE IF DictHas(s.elems[n], hashed)
                  THEN Loaded(s, n, DictGet(s.elems[n], hashed), is_file)
             ELSE IF DictHas(s.repl_elems[n], hashed)
                  THEN Loaded(s, n, DictGet(s.repl_elems[n], hashed), is_file)
             ELSE None,
             TRUE, "")

RECURSIVE find(_, _, _, _, _)
RouteFind(s, n, elem_key, is_file, hops, succ) ==
    IF ~succ.ok THEN Response(s, n, None, FALSE, "Error finding successor")
    ELSE IF succ.ip = n
    THEN FindHere(s, n, elem_key, sha1_hash(elem_key), is_file)
    ELSE IF ~Reachable(s, succ.ip)
    THEN Response(s, n, None, FALSE, "Connection error to node")
    ELSE IF hops = 0 THEN Response(s, n, None, FALSE, "loop")
    ELSE find(s, succ.ip, elem_key, is_file, hops - 1)

find(s, n, elem_key, is_file, hops) ==
    IF DictHas(s.repl_elems[n], sha1_hash(elem_key))
    THEN Response(s, n,
                  Loaded(s, n, DictGet(s.repl_elems[n], sha1_hash(elem_key)),
                         is_file),
                  TRUE, "")
    ELSE RouteFind(s, n, elem_key, is_file, hops,
                   find_successor(s, n, sha1_hash(elem_key), MaxHops))

-----------------------------------------------------------------------------
(* Ownership handoff *)

DictOf(s, n, which) ==
    CASE which.name = "elems" -> s.elems[n]
      [] which.name = "repl_elems" -> s.repl_elems[n]
      [] which.name = "old" -> which.old

\* elem_dict.pop(elem_key, None)
PopFrom(s, n, which, elem_key) ==
    CASE which.name = "elems" -> [s EXCEPT !.elems[n] = DictPop(@, elem_key)]
      [] which.name = "repl_elems" -> [s EXCEPT !.repl_elems[n] = DictPop(@, elem_key)]
      [] which.name = "old" -> s

PopOld(which, elem_key) ==
    IF which.name = "old" THEN [which EXCEPT !.old = DictPop(@, elem_key)] ELSE which

Stuck(s, n, which, elem_keys, after) ==
    [s EXCEPT !.exc = "stuck",
              !.stuck = [node |-> n, dict |-> which, keys |-> elem_keys,
                         after |-> after]]

\* The pass loops on the head of elem_keys ("while not resp") until its store
\* returns ok; it stops there when the store fails in the state it runs in.
RECURSIVE _update_elements(_, _, _, _)
UpdateElement(s, n, elem_keys, which, resp) ==
    IF ~resp.ok THEN Stuck(s, n, which, elem_keys, "")
    ELSE _update_elements(PopFrom(resp.st, n, which, Head(elem_keys)),
                          n, Tail(elem_keys), PopOld(which, Head(elem_keys)))

\* os.remove(elem) once the store of the file returned ok
UpdateFileElement(s, n, elem_keys, which, elem, resp) ==
    IF ~resp.ok THEN Stuck(s, n, which, elem_keys, "")
    ELSE _update_elements(
            PopFrom([resp.st EXCEPT !.disk[n] = DictPop(@, elem)],
                    n, which, Head(elem_keys)),
            n, Tail(elem_keys), PopOld(which, Head(elem_keys)))

\* The store of one key of the pass: the bytes of the file when the value
\* names a file of this host, the value otherwise
UpdateOne(s, n, elem_keys, which, elem) ==
    IF _is_path(s, n, elem)
    THEN UpdateFileElement(s, n, elem_keys, which, elem,
                           store(s, n, Head(elem_keys), _load_element(s, n, elem),
                                 TRUE, TRUE, elem, MaxHops))
    ELSE UpdateElement(s, n, elem_keys, which,
                       store(s, n, Head(elem_keys), elem, TRUE, TRUE, None,
                             MaxHops))

_update_elements(s, n, elem_keys, which) ==
    IF elem_keys = <<>> THEN s
    ELSE IF ~DictHas(DictOf(s, n, which), Head(elem_keys))
    THEN Stuck(s, n, which, elem_keys, "")
    ELSE UpdateOne(s, n, elem_keys, which,
                   DictGet(DictOf(s, n, which), Head(elem_keys)))

Misplaced(s, n) ==
    SelectSeq(DictKeys(s.elems[n]),
              LAMBDA k : ~_belongs(k, sha1_hash(s.predecessor[n]), sha1_hash(n)))

_fix_elem_dict(s, n) ==
    IF s.predecessor[n] = None THEN s
    ELSE IF Misplaced(s, n) # <<>>
    THEN _update_elements(s, n, Misplaced(s, n), Elems)
    ELSE s

_update_repl_elements(s, n) ==
    IF s.repl_elems[n] # <<>>
    THEN _update_elements(s, n, DictKeys(s.repl_elems[n]), ReplElems)
    ELSE s

\* What open(path, "rb").read() does in _resend_replica_to_successor, where
\* path is the boolean that _is_path returned and so names file descriptor 0
\* or 1 of the process: the first io.reads keys are read (and the descriptor
\* closed), the next one raises OSError or blocks in the read.
\* The bytes such a read returns
FdBytes == "fd"

IoOutcome == [reads : 0..Cardinality(Hash), then : {"raise", "block"}]

\* The outcomes that differ for a peer that holds the elems n holds
IoFor(n) ==
    {io \in IoOutcome : /\ io.reads <= Len(elems[n])
                        /\ io.reads = Len(elems[n]) => io.then = "raise"}

RECURSIVE ResendKeys(_, _, _, _)
ResendKeys(s, n, keys, io) ==
    IF keys = <<>> THEN s
    ELSE IF ~Reachable(s, s.successor[n])
    THEN ResendKeys([s EXCEPT !.repl_failed =
                                 @ \cup {<<n, s.successor[n], Head(keys)>>}],
                    n, Tail(keys), io)
    ELSE IF io.reads = 0 THEN [s EXCEPT !.exc = io.then]
    ELSE \* store_replica(key, file_bytes, persist_path=val)
         ResendKeys(SendReplica(s, n, s.successor[n], Head(keys), FdBytes,
                                DictGet(s.elems[n], Head(keys))),
                    n, Tail(keys), [io EXCEPT !.reads = @ - 1])

_resend_replica_to_successor(s, n, io) ==
    ResendKeys(s, n, DictKeys(s.elems[n]), io)

\* Variant of Promote that drops the replicas
PromoteDrops(s, n) ==
    [s EXCEPT !.repl_elems[n] = <<>>]

\* for key, val in self.repl_elems.items(): self.elems[key] = val
\* self.repl_elems = {}
\* A pass that loops on the replaced dict object keeps that object.
Promote(s, n) ==
    [s EXCEPT !.elems[n] = DictUpdate(@, s.repl_elems[n]),
              !.repl_elems[n] = <<>>,
              !.promoted = @ \cup {<<n, h>> : h \in KeySet(s.repl_elems[n])},
              !.spinning = {IF task.node = n /\ task.dict.name = "repl_elems"
                            THEN [task EXCEPT !.dict = [name |-> "old",
                                                        old |-> s.repl_elems[n]]]
                            ELSE task : task \in @}]

\* predecessor.setter, after the pointer is written
AfterFixForPredecessor(s, n) ==
    IF s.exc # "none" THEN [s EXCEPT !.stuck.after = "repl_elems"]
    ELSE _update_repl_elements(s, n)

\* Variant of set_predecessor that forgets the tombstones of the peer
SetPredecessorClearsTombstones(s, n, pred) ==
    [s EXCEPT !.predecessor[n] = pred, !.removed_elems[n] = {}]

set_predecessor(s, n, pred) ==
    IF pred = s.predecessor[n] THEN s
    ELSE IF pred = None
    THEN [Promote(s, n) EXCEPT !.predecessor[n] = None]
    ELSE AfterFixForPredecessor(
            _fix_elem_dict([s EXCEPT !.predecessor[n] = pred], n), n)

\* successor.setter, after the pointer is written
AfterFixForSuccessor(s, n, io) ==
    IF s.exc # "none" THEN [s EXCEPT !.stuck.after = "resend"]
    ELSE _resend_replica_to_successor(s, n, io)

set_successor(s, n, succ, io) ==
    IF succ = s.successor[n] THEN s
    ELSE IF succ = n
    THEN [Promote(s, n) EXCEPT !.successor[n] = n]
    ELSE AfterFixForSuccessor(
            _fix_elem_dict([s EXCEPT !.successor[n] = succ], n), n, io)

-----------------------------------------------------------------------------
(* Ring maintenance *)

notify(s, n, node_ip) ==
    IF \/ s.predecessor[n] = None
       \/ /\ node_ip # s.predecessor[n]
          /\ _belongs(sha1_hash(node_ip), sha1_hash(s.predecessor[n]), sha1_hash(n))
    THEN set_predecessor(s, n, node_ip)
    ELSE s

\* Variant of RouteJoin that answers without taking the joining peer as
\* predecessor
RouteJoinKeepsPredecessor(s, n, node_ip, hops, resp) ==
    IF ~resp.ok THEN Response(s, n, "", FALSE, "Connection error to node")
    ELSE Response(s, n, n, TRUE, "")

\* join, run by the bootstrap peer n for the joining peer node_ip
RECURSIVE join(_, _, _, _)
RouteJoin(s, n, node_ip, hops, resp) ==
    IF ~resp.ok THEN Response(s, n, "", FALSE, "Connection error to node")
    ELSE IF resp.ip = n
    THEN Response(set_predecessor(s, n, node_ip), n, n, TRUE, "")
    ELSE \* session.join(node_succ) on node_succ; DhtSession raises
         \* ServiceConnectionError, which join does not catch
         IF ~Reachable(s, resp.ip) \/ hops = 0
         THEN Response([s EXCEPT !.exc = "raise"], n, "", FALSE, "")
         ELSE join(s, resp.ip, resp.ip, hops - 1)

join(s, n, node_ip, hops) ==
    RouteJoin(s, n, node_ip, hops, find_successor(s, n, sha1_hash(n), MaxHops))

-----------------------------------------------------------------------------
(* Worker threads *)

Thread == {"stabilize", "fix_fingers", "check_predecessor", "check_dht_successor"}

NoCont == [kind |-> "none", to |-> "", rest |-> <<>>]

\* A pass that loops in _update_elements: the thread that runs it (thread is
\* "" for the handler of an inbound RPC) and what that thread does afterwards
Task(s, thread, cont) ==
    [node |-> s.stuck.node, dict |-> s.stuck.dict, keys |-> s.stuck.keys,
     after |-> s.stuck.after, thread |-> thread, cont |-> cont]

Ticks(n, thread) ==
    /\ alive[n]
    /\ <<n, thread>> \notin halted
    /\ \A task \in spinning : ~(task.node = n /\ task.thread = thread)

\* How a worker thread of n leaves the handler chain it ran.  An exception
\* that reaches the worker's loop ends the thread.  A pass looping in the
\* thread itself keeps the thread; a pass looping in the handler of an RPC the
\* thread is waiting for ends that RPC with the transport's timeout.
Settle(s, n, thread, cont) ==
    CASE s.exc = "none" -> s
      [] s.exc \in {"raise", "block"} ->
            [s EXCEPT !.halted = @ \cup {<<n, thread>>}, !.exc = "none"]
      [] s.exc = "stuck" /\ s.stuck.node = n ->
            [s EXCEPT !.spinning = @ \cup {Task(s, thread, cont)},
                      !.exc = "none", !.stuck = NoTask]
      [] s.exc = "stuck" /\ s.stuck.node # n ->
            [s EXCEPT !.spinning = @ \cup {Task(s, "", NoCont)},
                      !.halted = @ \cup {<<n, thread>>},
                      !.exc = "none", !.stuck = NoTask]

Tick(s) ==
    [op |-> "tick", node |-> "", key |-> "", ok |-> TRUE, msg |-> "",
     at |-> "", tomb |-> FALSE, suppressed |-> s.suppressed,
     promoted |-> s.promoted]

Done(s) ==
    /\ Install(s)
    /\ ev' = Tick(s)
    /\ UNCHANGED <<written, budget, host>>

\* stabilize, after the adoption step
NotifySuccessor(s, n, succ) ==
    IF s.exc # "none"
    THEN Settle(s, n, "stabilize", [kind |-> "notify", to |-> succ, rest |-> <<>>])
    ELSE Settle(notify(s, succ, n), n, "stabilize", NoCont)

\* Variant of StabilizeTick that adopts the successor's predecessor whenever
\* it is set
StabilizeAdoptsAny(s, n, io) ==
    IF s.successor[n] = n THEN s
    ELSE IF ~Reachable(s, s.successor[n])
    THEN Settle(set_successor(s, n, n, io), n, "stabilize", NoCont)
    ELSE IF s.predecessor[s.successor[n]] # None
    THEN NotifySuccessor(set_successor(s, n, s.predecessor[s.successor[n]], io),
                         n, s.successor[n])
    ELSE NotifySuccessor(s, n, s.successor[n])

\* One iteration of the loop of stabilize
StabilizeTick(s, n, io) ==
    IF s.successor[n] = n THEN s
    ELSE IF ~Reachable(s, s.successor[n])
    THEN Settle(set_successor(s, n, n, io), n, "stabilize", NoCont)
    ELSE IF /\ s.predecessor[s.successor[n]] # None
            /\ _belongs(sha1_hash(s.predecessor[s.successor[n]]), sha1_hash(n),
                        sha1_hash(s.successor[n]))
    THEN NotifySuccessor(set_successor(s, n, s.predecessor[s.successor[n]], io),
                         n, s.successor[n])
    ELSE NotifySuccessor(s, n, s.successor[n])

Stabilize(n) ==
    /\ Ticks(n, "stabilize")
    /\ \E io \in IoFor(n) : Done(StabilizeTick(Cur, n, io))

NextFinger(s, n) == IF s.next[n] + 1 >= RingBits THEN 0 ELSE s.next[n] + 1

SetFinger(s, n, nxt, resp) ==
    [s EXCEPT !.next[n] = nxt,
              !.fingers[n][nxt] = IF ~resp.ok THEN NoFinger ELSE resp.ip]

\* self.node_id + (1 << self.next) - 1
FingerStart(n, nxt) == sha1_hash(n) + 2 ^ nxt - 1

\* find_successor(self.node_id + (1 << self.next) - 1)
FingerLookup(s, n, nxt) == find_successor(s, n, FingerStart(n, nxt), MaxHops)

\* One iteration of the loop of fix_fingers
FixFingersTick(s, n) ==
    SetFinger(s, n, NextFinger(s, n), FingerLookup(s, n, NextFinger(s, n)))

FixFingers(n) ==
    /\ Ticks(n, "fix_fingers")
    /\ Done(FixFingersTick(Cur, n))

\* One iteration of the loop of check_predecessor
CheckPredecessorTick(s, n) ==
    IF s.predecessor[n] # None /\ ~Reachable(s, s.predecessor[n])
    THEN Settle(_update_repl_elements(set_predecessor(s, n, None), n),
                n, "check_predecessor", NoCont)
    ELSE s

CheckPredecessor(n) ==
    /\ Ticks(n, "check_predecessor")
    /\ Done(CheckPredecessorTick(Cur, n))

\* The loop over the known servers in check_dht_successor (app.py)
RECURSIVE RepairLoop(_, _, _, _)
RECURSIVE AfterPass(_, _, _)
Unblock(s) == [s EXCEPT !.exc = "none", !.stuck = NoTask]

AfterSetSuccessor(s, n, servers, io) ==
    CASE s.exc \in {"none", "raise"} -> RepairLoop(Unblock(s), n, Tail(servers), io)
      [] s.exc = "block" -> Settle(s, n, "check_dht_successor", NoCont)
      [] s.exc = "stuck" ->
            Settle(s, n, "check_dht_successor",
                   [kind |-> "repair", to |-> "", rest |-> Tail(servers)])

AfterJoin(resp, n, servers, io) ==
    IF resp.st.exc = "stuck"
    THEN RepairLoop([Unblock(resp.st) EXCEPT
                        !.spinning = @ \cup {Task(resp.st, "", NoCont)}],
                    n, Tail(servers), io)
    ELSE IF resp.st.exc # "none" \/ ~resp.ok
    THEN RepairLoop(Unblock(resp.st), n, Tail(servers), io)
    ELSE AfterSetSuccessor(set_successor(resp.st, n, resp.data, io), n, servers, io)

RepairLoop(s, n, servers, io) ==
    IF servers = <<>> THEN s
    ELSE IF ~Reachable(s, Head(servers)) THEN RepairLoop(s, n, Tail(servers), io)
    ELSE AfterJoin(join(s, Head(servers), n, MaxHops), n, servers, io)

CheckDhtSuccessorTick(s, n, io) ==
    IF s.successor[n] = n /\ s.known[n] # <<>>
    THEN RepairLoop(s, n, s.known[n], io)
    ELSE s

CheckDhtSuccessor(n) ==
    /\ Ticks(n, "check_dht_successor")
    /\ \E io \in IoFor(n) : Done(CheckDhtSuccessorTick(Cur, n, io))

\* A pass that was looping goes on once the store of its key returns ok:
\* the rest of the pass, the rest of the setter, then what its thread had
\* left to do.
AfterResend(s, task, io) ==
    CASE task.thread = "" -> Unblock(s)
      [] task.thread = "stabilize" /\ s.exc = "none" /\ Reachable(s, task.cont.to) ->
            Settle(notify(s, task.cont.to, task.node), task.node, "stabilize", NoCont)
      [] task.thread = "stabilize" /\ (s.exc # "none" \/ ~Reachable(s, task.cont.to)) ->
            [Unblock(s) EXCEPT !.halted = @ \cup {<<task.node, "stabilize">>}]
      [] task.thread = "check_dht_successor" /\ s.exc = "block" ->
            Settle(s, task.node, "check_dht_successor", NoCont)
      [] task.thread = "check_dht_successor" /\ s.exc # "block" ->
            RepairLoop(Unblock(s), task.node, task.cont.rest, io)
      [] task.thread = "check_predecessor" -> Unblock(s)

AfterPass(s, task, io) ==
    IF s.exc = "stuck"
    THEN [Unblock(s) EXCEPT !.spinning = @ \cup
             {[task EXCEPT !.dict = s.stuck.dict, !.keys = s.stuck.keys]}]
    ELSE CASE task.after = "repl_elems" ->
                AfterPass(_update_repl_elements(s, task.node),
                          [task EXCEPT !.after = ""], io)
           [] task.after = "resend" ->
                AfterResend(_resend_replica_to_successor(s, task.node, io), task, io)
           [] task.after = "" -> AfterResend(s, task, io)

Progress(s, task) == s.exc = "stuck" => s.stuck.keys # task.keys

ResumeIf(s, task, io) ==
    /\ Progress(s, task)
    /\ Done(AfterPass(s, task, io))

Respin(task) ==
    /\ task \in spinning
    /\ alive[task.node]
    /\ \E io \in IoFor(task.node) :
          ResumeIf(_update_elements([Cur EXCEPT !.spinning = @ \ {task}],
                                    task.node, task.keys, task.dict), task, io)

-----------------------------------------------------------------------------
(* The successor setter run statement by statement (lines 147-159), as the  *)
(* stabilize thread of n runs it with the node's own IP once its successor  *)
(* did not answer (lines 259-260), while the other threads of the process   *)
(* and the handlers of inbound RPCs run.  pc is "idle" outside the call,    *)
(* "loop" inside the for loop over repl_elems.items() and "copied" between  *)
(* the loop and "self.repl_elems = {}"; keys are the keys the iterator has  *)
(* not yielded yet and size the number of entries the dict had when the     *)
(* loop began.                                                              *)

NoSetter == [pc |-> "idle", keys |-> <<>>, size |-> 0]

SetterStep(s, n, call) ==
    /\ Install(s)
    /\ setter' = [setter EXCEPT ![n] = call]
    /\ ev' = Tick(s)
    /\ UNCHANGED <<written, budget, data_elems, data_repl_elems,
                   data_removed_elems, passwd, hashseed, dht_sessions,
                   client_sessions>>

\* stabilize: DhtSession(self.successor) raised ServiceConnectionError and the
\* setter is entered; the for statement creates the iterator
EnterSetter(n) ==
    /\ Ticks(n, "stabilize")
    /\ setter[n].pc = "idle"
    /\ successor[n] # n
    /\ ~Reachable(Cur, successor[n])
    /\ SetterStep(Cur, n, [pc |-> "loop", keys |-> DictKeys(repl_elems[n]),
                           size |-> Len(repl_elems[n])])

\* One step of the iterator: RuntimeError ("dictionary changed size during
\* iteration"), which nothing catches, when the dict has another number of
\* entries than when the loop began; else self.elems[key] = val for the next
\* key, or the end of the loop
CopyReplica(n) ==
    /\ alive[n]
    /\ setter[n].pc = "loop"
    /\ IF Len(repl_elems[n]) # setter[n].size
       THEN SetterStep([Cur EXCEPT !.halted = @ \cup {<<n, "stabilize">>}], n, NoSetter)
       ELSE IF setter[n].keys = <<>>
       THEN SetterStep(Cur, n, [setter[n] EXCEPT !.pc = "copied"])
       ELSE SetterStep([Cur EXCEPT !.elems[n] =
                            DictSet(@, Head(setter[n].keys),
                                    DictGet(repl_elems[n], Head(setter[n].keys)))],
                       n, [setter[n] EXCEPT !.keys = Tail(@)])

\* self.repl_elems = {}; self._successor = successor; return
ReplaceReplicas(n) ==
    /\ alive[n]
    /\ setter[n].pc = "copied"
    /\ SetterStep([Cur EXCEPT !.repl_elems[n] = <<>>, !.successor[n] = n], n, NoSetter)

-----------------------------------------------------------------------------
(* Membership *)

InSeq(x, seq) == \E i \in 1..Len(seq) : seq[i] = x

\* ServerManager.add_server at peer n
add_server(s, n, server_ip) ==
    IF InSeq(server_ip, s.known[n]) \/ server_ip = n THEN s
    ELSE [s EXCEPT !.known[n] = Append(@, server_ip)]

RECURSIVE AddServers(_, _, _)
AddServers(s, n, ips) ==
    IF ips = <<>> THEN s
    ELSE AddServers(add_server(s, n, Head(ips)), n, Tail(ips))

\* The caller n adds what known_ip, where it is now registered, knows
AddKnownOf(s, n, known_ip) == AddServers(s, n, s.known[known_ip])

\* discover_servers_routine: the session registers n at known_ip, then n adds
\* what known_ip knows
RECURSIVE DiscoverLoop(_, _, _)
DiscoverLoop(s, n, servers) ==
    IF servers = <<>> THEN s
    ELSE IF ~Reachable(s, Head(servers)) THEN DiscoverLoop(s, n, Tail(servers))
    ELSE DiscoverLoop(AddKnownOf(add_server(s, Head(servers), n), n, Head(servers)),
                      n, Tail(servers))

DiscoverServers(n) ==
    /\ alive[n]
    /\ Done(DiscoverLoop(Cur, n, known[n]))

\* The peer process stops
Crash(n) ==
    /\ alive[n]
    /\ budget.crashes > 0
    /\ Install([Cur EXCEPT !.alive[n] = FALSE])
    /\ ev' = Tick(Cur)
    /\ budget' = [budget EXCEPT !.crashes = @ - 1]
    /\ UNCHANGED <<written, host>>

-----------------------------------------------------------------------------
(* Client operations, as client_session.py issues them on the ring node of  *)
(* the peer n the client is connected to                                    *)

NotWritten == [val |-> None, removed_at |-> "", joined |-> FALSE]

Answer(op, n, elem_key, resp, wrote) ==
    /\ Install(resp.st)
    /\ ev' = [op |-> op, node |-> n, key |-> elem_key, ok |-> resp.ok,
              msg |-> resp.msg, at |-> resp.at,
              tomb |-> sha1_hash(elem_key) \in removed_elems[resp.at],
              suppressed |-> {}, promoted |-> {}]
    /\ written' = [written EXCEPT ![elem_key] = IF resp.ok THEN wrote ELSE NotWritten]
    /\ budget' = [budget EXCEPT !.ops = @ - 1]
    /\ UNCHANGED host

Store(n, elem_key, elem, overwrite) ==
    /\ alive[n]
    /\ budget.ops > 0
    /\ Answer("store", n, elem_key,
              store(Cur, n, sha1_hash(elem_key), elem, overwrite, FALSE, None,
                    MaxHops),
              [val |-> elem, removed_at |-> "", joined |-> successor[n] # n])

RemoveAnswer(n, elem_key, resp) ==
    Answer("remove", n, elem_key, resp,
           [val |-> None, removed_at |-> resp.at, joined |-> successor[n] # n])

Remove(n, elem_key) ==
    /\ alive[n]
    /\ budget.ops > 0
    /\ RemoveAnswer(n, elem_key, remove(Cur, n, sha1_hash(elem_key), MaxHops))

-----------------------------------------------------------------------------
(* DHT listener sessions (dht_session.py).  A session is a DhtSessionService *)
(* object at the peer it is open on: dht_id is -1 until register ran on it;  *)
(* registered is history, TRUE once a register with the secret of that peer  *)
(* completed on the session.  The sessions here are on the clients ring.     *)

Secret == {"secret", "guess"}
CLIENT == 0                         \* DhtID.CLIENT

NewDhtSession(at) == [at |-> at, dht_id |-> -1, registered |-> FALSE]

\* exposed_register: the (data, ok, msg) it returns and the session it leaves
exposed_register(session, dht_id, pw) ==
    [session |-> [session EXCEPT !.dht_id = dht_id,
                                 !.registered = @ \/ pw = passwd[session.at]],
     resp |-> IF pw # passwd[session.at]
              THEN <<None, FALSE, "Wrong password">>
              ELSE <<None, FALSE, "Registered">>]

\* not resp, for the tuple a call returned: a tuple is false when it is empty
Not(resp) == Len(resp) = 0

\* DhtSession.__enter__ run by a peer that holds the secret pw, towards ip
AfterRegister(reg) ==
    IF Not(reg.resp)
    THEN [raised |-> "ServiceConnectionError", handle |-> FALSE,
          session |-> reg.session]
    ELSE [raised |-> "", handle |-> TRUE, session |-> reg.session]

DhtSessionEnter(pw, ip) ==
    IF ~alive[ip]
    THEN [raised |-> "ServiceConnectionError", handle |-> FALSE,
          session |-> NewDhtSession(ip)]
    ELSE AfterRegister(exposed_register(NewDhtSession(ip), CLIENT, pw))

\* The calls of the ring surface with the arguments a caller passes
RingCall ==
    [op : {"join", "notify"}, ip : {"a", "b"}, key : {""}]
        \cup [op : {"find_successor", "find", "store", "store_replica", "remove",
                    "remove_replica"}, ip : {""}, key : {"k1", "k2"}]
        \cup [op : {"get_predecessor"}, ip : {""}, key : {""}]

\* How the handler of an inbound RPC leaves the chain it ran: a pass that
\* loops keeps looping in the handler's thread
SettleRpc(s) ==
    IF s.exc = "stuck"
    THEN [Unblock(s) EXCEPT !.spinning = @ \cup {Task(s, "", NoCont)}]
    ELSE Unblock(s)

\* The method of the ChordNode behind exposed_<op>: the state it leaves
Dispatch(s, n, call) ==
    CASE call.op = "join" -> join(s, n, call.ip, MaxHops).st
      [] call.op = "notify" -> notify(s, n, call.ip)
      [] call.op = "store" ->
            store(s, n, sha1_hash(call.key), "v1", TRUE, FALSE, None, MaxHops).st
      [] call.op = "store_replica" ->
            store_replica(s, n, sha1_hash(call.key), "v1", None)
      [] call.op = "remove" -> remove(s, n, sha1_hash(call.key), MaxHops).st
      [] call.op = "remove_replica" -> remove_replica(s, n, sha1_hash(call.key))
      [] call.op \in {"find_successor", "get_predecessor", "find"} -> s

\* _ensure_registered around exposed_<op>
Exposed(s, session, call) ==
    IF session.dht_id = -1
    THEN [st |-> s, rejected |-> TRUE, msg |-> "Not registered"]
    ELSE [st |-> SettleRpc(Dispatch(s, session.at, call)), rejected |-> FALSE,
          msg |-> ""]

SessionEvent(op, node, at, key, ok, msg) ==
    [op |-> op, node |-> node, key |-> key, ok |-> ok, msg |-> msg, at |-> at,
     tomb |-> FALSE, suppressed |-> {}, promoted |-> {}]

\* A program connects to the DHT listener of the peer at
Connect(at) ==
    /\ alive[at]
    /\ Len(dht_sessions) < MaxDhtSessions
    /\ dht_sessions' = Append(dht_sessions, NewDhtSession(at))
    /\ ev' = SessionEvent("connect", "", at, "", TRUE, "")
    /\ UNCHANGED <<alive, known, predecessor, successor, fingers, next, elems,
                   repl_elems, removed_elems, halted, spinning, repl_failed,
                   written, budget, disk, data_elems, data_repl_elems,
                   data_removed_elems, passwd, hashseed, client_sessions,
                   setter>>

Registered(i, reg) ==
    /\ dht_sessions' = [dht_sessions EXCEPT ![i] = reg.session]
    /\ ev' = SessionEvent("register", "", reg.session.at, "", reg.resp[2],
                          reg.resp[3])

\* The program calls register on session i
Register(i, pw) ==
    /\ i \in 1..Len(dht_sessions)
    /\ alive[dht_sessions[i].at]
    /\ Registered(i, exposed_register(dht_sessions[i], CLIENT, pw))
    /\ UNCHANGED <<alive, known, predecessor, successor, fingers, next, elems,
                   repl_elems, removed_elems, halted, spinning, repl_failed,
                   written, budget, disk, data_elems, data_repl_elems,
                   data_removed_elems, passwd, hashseed, client_sessions,
                   setter>>

Called(i, call, res) ==
    /\ Install(res.st)
    /\ ev' = SessionEvent(call.op, "", dht_sessions[i].at, call.key,
                          ~res.rejected, res.msg)

\* The program calls a method of the ring surface on session i
Call(i, call) ==
    /\ i \in 1..Len(dht_sessions)
    /\ alive[dht_sessions[i].at]
    /\ budget.ops > 0
    /\ Called(i, call, Exposed(Cur, dht_sessions[i], call))
    /\ budget' = [budget EXCEPT !.ops = @ - 1]
    /\ UNCHANGED <<written, host>>

Entered(n, ip, res) ==
    /\ dht_sessions' = IF alive[ip] THEN Append(dht_sessions, res.session)
                       ELSE dht_sessions
    /\ ev' = SessionEvent("enter", n, ip, "", res.handle, res.raised)

\* Peer n acquires a DhtSession towards ip
Enter(n, ip) ==
    /\ alive[n]
    /\ Len(dht_sessions) < MaxDhtSessions
    /\ Entered(n, ip, DhtSessionEnter(passwd[n], ip))
    /\ UNCHANGED <<alive, known, predecessor, successor, fingers, next, elems,
                   repl_elems, removed_elems, halted, spinning, repl_failed,
                   written, budget, disk, data_elems, data_repl_elems,
                   data_removed_elems, passwd, hashseed, client_sessions,
                   setter>>

-----------------------------------------------------------------------------
(* Client listener sessions (client_session.py).  A session is a            *)
(* ClientSessionService object at the peer it is open on.  Each peer runs   *)
(* two ChordNodes, the clients ring (elems, repl_elems, removed_elems) and  *)
(* the data ring (data_elems, data_repl_elems, data_removed_elems); the     *)
(* client operations are run on rings whose pointers are settled and the    *)
(* same in both, so one set of pointers serves the two, and the two nodes   *)
(* of a peer write the files of one host.                                   *)

User == {"alice"}
Password == {"pw", "bad"}
File == {"f1", "f2"}
Bytes == {"hello"}

\* Variant of hash that gives every password of a process the same value
HashIgnoresValue(value, seed) == 7 * seed

\* hash(password) of the process whose hash seed is seed: the seed is drawn
\* when the interpreter starts, and different strings or different seeds
\* give different values
hash(value, seed) == (CASE value = "pw" -> 3 [] value = "bad" -> 5) + 7 * seed

\* f"{self.username}:{sys_path}" and f"{self.username}/{sys_path}"
ElemKey(username, sys_path) == username \o ":" \o sys_path
PersistPath(username, sys_path) == username \o "/" \o sys_path

\* json.dumps of the account record, written without the quote marks
RECURSIVE Joined(_)
Joined(files) ==
    IF files = <<>> THEN ""
    ELSE IF Len(files) = 1 THEN files[1]
    ELSE files[1] \o ", " \o Joined(Tail(files))

json_dumps(client_info) ==
    "{passwd: " \o ToString(client_info.passwd) \o ", files: ["
        \o Joined(client_info.files) \o "]}"

\* json.loads: the record whose text val is
FileLists == UNION {[1..k -> File] : k \in 0..MaxClientCalls}
ClientInfo == [passwd : {hash(p, sd) : p \in Password, sd \in {0, 1}},
               files : FileLists]
json_loads(val) == CHOOSE client_info \in ClientInfo : json_dumps(client_info) = val

\* file_name in client_info["files"]; client_info["files"].remove(file_name)
InList(list, x) == \E i \in 1..Len(list) : list[i] = x
ListRemove(list, x) ==
    [i \in 1..(Len(list) - 1) |->
        IF i < (CHOOSE j \in 1..Len(list) :
                    list[j] = x /\ \A k \in 1..(j - 1) : list[k] # x)
        THEN list[i] ELSE list[i + 1]]

\* The two rings a client operation works on
DataCur ==
    [Cur EXCEPT !.elems = data_elems, !.repl_elems = data_repl_elems,
                !.removed_elems = data_removed_elems]

Rings == [clients |-> Cur, data |-> DataCur]

\* The rings after a call on the clients ring, or on the data ring, left s
OnClients(st, s) == [clients |-> s, data |-> [st.data EXCEPT !.disk = s.disk]]
OnData(st, s) == [clients |-> [st.clients EXCEPT !.disk = s.disk], data |-> s]

NewClientSession(at) == [at |-> at, _username |-> None, _passwd |-> None]
LoggedIn(session, username, password) ==
    [session EXCEPT !._username = username, !._passwd = password]

\* What a call on the client listener gives back: shape is "triple" for a
\* (data, ok, msg), "pair" for a two-element tuple and "raise" when the
\* handler raised (msg is then the exception); st and session are what the
\* call leaves
ClientResult(st, session, shape, data, ok, msg) ==
    [st |-> st, session |-> session, shape |-> shape, data |-> data, ok |-> ok,
     msg |-> msg]
Triple(st, session, resp) ==
    ClientResult(st, session, "triple", resp.data, resp.ok, resp.msg)
ErrorResponse(st, session, msg) ==
    ClientResult(st, session, "triple", None, FALSE, msg)
Raised(st, session, exception) ==
    ClientResult(st, session, "raise", None, FALSE, exception)

_ensure_registered(st, session, res) ==
    IF session._username = None \/ session._passwd = None
    THEN ClientResult(st, session, "pair", None, FALSE, "You are not registered")
    ELSE res

\* exposed_register of the client listener
RegisterStored(st, session, username, password, resp) ==
    Triple(OnClients(st, resp.st),
           IF resp.ok THEN LoggedIn(session, username, password) ELSE session,
           resp)

client_exposed_register(st, session, username, password) ==
    RegisterStored(st, session, username, password,
        store(st.clients, session.at, sha1_hash(username),
              json_dumps([passwd |-> hash(password, hashseed[session.at]),
                          files |-> <<>>]),
              FALSE, FALSE, None, MaxHops))

LoginFound(st, session, username, password, resp) ==
    IF ~resp.ok \/ resp.data = None
    THEN ErrorResponse(st, session, "Failed to login. Try again later.")
    ELSE IF json_loads(resp.data).passwd # hash(password, hashseed[session.at])
    THEN ErrorResponse(st, session, "Wrong password")
    ELSE ClientResult(st, LoggedIn(session, username, password), "triple", None,
                      TRUE, "")

exposed_login(st, session, username, password) ==
    LoginFound(st, session, username, password,
               find(st.clients, session.at, username, FALSE, MaxHops))

DataStored(st, session, resp) == Triple(OnData(st, resp.st), session, resp)

UploadData(st, session, file, sys_path) ==
    DataStored(st, session,
        store(st.data, session.at, sha1_hash(ElemKey(session._username, sys_path)),
              file, TRUE, FALSE, PersistPath(session._username, sys_path),
              MaxHops))

UploadStored(st, session, file, sys_path, cli_resp) ==
    IF ~cli_resp.ok THEN Triple(OnClients(st, cli_resp.st), session, cli_resp)
    ELSE UploadData(OnClients(st, cli_resp.st), session, file, sys_path)

UploadFound(st, session, file, sys_path, resp) ==
    IF ~resp.ok THEN ErrorResponse(st, session, resp.msg)
    ELSE IF resp.data = None THEN Raised(st, session, "TypeError")
    ELSE UploadStored(st, session, file, sys_path,
            store(st.clients, session.at, sha1_hash(session._username),
                  json_dumps([json_loads(resp.data)
                                  EXCEPT !.files = Append(@, sys_path)]),
                  TRUE, FALSE, None, MaxHops))

exposed_upload(st, session, file, sys_path) ==
    _ensure_registered(st, session,
        UploadFound(st, session, file, sys_path,
                    find(st.clients, session.at, session._username, FALSE,
                         MaxHops)))

DownloadFound(st, session, file_name, resp) ==
    IF ~resp.ok THEN ErrorResponse(st, session, resp.msg)
    ELSE IF resp.data = None THEN Raised(st, session, "TypeError")
    ELSE IF ~InList(json_loads(resp.data).files, file_name)
    THEN ErrorResponse(st, session, "File not found")
    ELSE Triple(st, session,
                find(st.data, session.at, ElemKey(session._username, file_name),
                     TRUE, MaxHops))

exposed_download(st, session, file_name) ==
    _ensure_registered(st, session,
        DownloadFound(st, session, file_name,
                      find(st.clients, session.at, session._username, FALSE,
                           MaxHops)))

DataRemoved(st, session, resp) == Triple(OnData(st, resp.st), session, resp)

DeleteData(st, session, file_name) ==
    DataRemoved(st, session,
        remove(st.data, session.at,
               sha1_hash(ElemKey(session._username, file_name)), MaxHops))

DeleteStored(st, session, file_name, cli_resp) ==
    IF ~cli_resp.ok THEN Triple(OnClients(st, cli_resp.st), session, cli_resp)
    ELSE DeleteData(OnClients(st, cli_resp.st), session, file_name)

DeleteFound(st, session, file_name, resp) ==
    IF ~resp.ok THEN ErrorResponse(st, session, resp.msg)
    ELSE IF resp.data = None THEN Raised(st, session, "TypeError")
    ELSE IF ~InList(json_loads(resp.data).files, file_name)
    THEN Raised(st, session, "ValueError")
    ELSE DeleteStored(st, session, file_name,
            store(st.clients, session.at, sha1_hash(session._username),
                  json_dumps([json_loads(resp.data)
                                  EXCEPT !.files = ListRemove(@, file_name)]),
                  TRUE, FALSE, None, MaxHops))

exposed_delete(st, session, file_name) ==
    _ensure_registered(st, session,
        DeleteFound(st, session, file_name,
                    find(st.clients, session.at, session._username, FALSE,
                         MaxHops)))

ListFound(st, session, resp) ==
    IF ~resp.ok THEN ClientResult(st, session, "triple", <<>>, FALSE, resp.msg)
    ELSE IF resp.data = None THEN Raised(st, session, "TypeError")
    ELSE ClientResult(st, session, "triple", json_loads(resp.data).files, TRUE, "")

exposed_list_files(st, session) ==
    _ensure_registered(st, session,
        ListFound(st, session,
                  find(st.clients, session.at, session._username, FALSE, MaxHops)))

\* The calls of the client listener with the arguments a client passes
ClientCall ==
    [op : {"register", "login"}, username : User, password : Password,
     file_name : {""}]
        \cup [op : {"upload", "download", "delete"}, username : {""},
              password : {""}, file_name : File]
        \cup [op : {"list_files"}, username : {""}, password : {""},
              file_name : {""}]

ClientDispatch(st, session, call) ==
    CASE call.op = "register" ->
            client_exposed_register(st, session, call.username, call.password)
      [] call.op = "login" ->
            exposed_login(st, session, call.username, call.password)
      [] call.op = "upload" -> exposed_upload(st, session, "hello", call.file_name)
      [] call.op = "download" -> exposed_download(st, session, call.file_name)
      [] call.op = "delete" -> exposed_delete(st, session, call.file_name)
      [] call.op = "list_files" -> exposed_list_files(st, session)

InstallRings(st) ==
    /\ Install(st.clients)
    /\ data_elems' = st.data.elems
    /\ data_repl_elems' = st.data.repl_elems
    /\ data_removed_elems' = st.data.removed_elems

\* A client connects to the client listener of the peer at
ClientConnect(at) ==
    /\ alive[at]
    /\ Len(client_sessions) < MaxClientSessions
    /\ client_sessions' = Append(client_sessions, NewClientSession(at))
    /\ ev' = SessionEvent("connect", "", at, "", TRUE, "")
    /\ UNCHANGED <<alive, known, predecessor, successor, fingers, next, elems,
                   repl_elems, removed_elems, halted, spinning, repl_failed,
                   written, budget, disk, data_elems, data_repl_elems,
                   data_removed_elems, passwd, hashseed, dht_sessions,
                   setter>>

ClientCalled(i, call, res) ==
    /\ InstallRings(res.st)
    /\ client_sessions' = [client_sessions EXCEPT ![i] = res.session]
    /\ ev' = SessionEvent(call.op, "", client_sessions[i].at, call.file_name,
                          res.ok, res.msg)

\* The client of session i calls a method of the client listener
ClientCalls(i, call) ==
    /\ i \in 1..Len(client_sessions)
    /\ alive[client_sessions[i].at]
    /\ budget.ops > 0
    /\ ClientCalled(i, call, ClientDispatch(Rings, client_sessions[i], call))
    /\ budget' = [budget EXCEPT !.ops = @ - 1]
    /\ UNCHANGED <<written, passwd, hashseed, dht_sessions, setter>>

-----------------------------------------------------------------------------
(* Specifications *)

\* Every host starts with no file, every data ring node empty and no session
\* open; secrets gives the cluster secret each peer was started with and
\* seeds the hash seed of each peer's process
InitHostWith(secrets, seeds) ==
    /\ disk = [n \in Node |-> <<>>]
    /\ data_elems = [n \in Node |-> <<>>]
    /\ data_repl_elems = [n \in Node |-> <<>>]
    /\ data_removed_elems = [n \in Node |-> {}]
    /\ passwd = secrets
    /\ hashseed = seeds
    /\ dht_sessions = <<>>
    /\ client_sessions = <<>>
    /\ setter = [n \in Node |-> NoSetter]

\* One cluster secret and one hash seed
InitHost == InitHostWith([n \in Node |-> "secret"], [n \in Node |-> 0])

\* The peers in up run a fresh ChordNode each (ChordNode.__init__); knows is
\* the peer table each starts with (connect_to_system adds the entry peer)
FreshNodes(up, knows, ops, crashes) ==
    /\ alive = [n \in Node |-> n \in up]
    /\ known = knows
    /\ predecessor = [n \in Node |-> None]
    /\ successor = [n \in Node |-> n]
    /\ fingers = [n \in Node |-> [i \in 0..(RingBits - 1) |-> NoFinger]]
    /\ next = [n \in Node |-> -1]
    /\ elems = [n \in Node |-> <<>>]
    /\ repl_elems = [n \in Node |-> <<>>]
    /\ removed_elems = [n \in Node |-> {}]
    /\ halted = {}
    /\ spinning = {}
    /\ repl_failed = {}
    /\ written = [k \in Key |-> NotWritten]
    /\ ev = [op |-> "tick", node |-> "", key |-> "", ok |-> TRUE, msg |-> "",
             at |-> "", tomb |-> FALSE, suppressed |-> {}, promoted |-> {}]
    /\ budget = [ops |-> ops, crashes |-> crashes]

InitRing(up, knows, ops, crashes) ==
    /\ FreshNodes(up, knows, ops, crashes)
    /\ InitHost

\* Peer a runs alone and peer b starts with a as its entry peer
Init ==
    InitRing({"a", "b"}, [n \in Node |-> IF n = "b" THEN <<"a">> ELSE <<>>],
             MaxClientOps, 0)

Next ==
    \/ \E n \in {"a", "b"}, k \in {"k1", "k2"}, v \in {"v1"} : Store(n, k, v, TRUE)
    \/ \E n \in {"a", "b"}, k \in {"k1", "k2"} : Remove(n, k)
    \/ \E n \in {"a", "b"} : Stabilize(n)
    \/ \E n \in {"a", "b"} : FixFingers(n)
    \/ \E n \in {"a", "b"} : CheckPredecessor(n)
    \/ \E n \in {"a", "b"} : CheckDhtSuccessor(n)
    \/ \E n \in {"a", "b"} : DiscoverServers(n)

Spec == Init /\ [][Next]_vars

\* The same two peers, one of which may stop
InitFail ==
    InitRing({"a", "b"}, [n \in Node |-> IF n = "b" THEN <<"a">> ELSE <<>>],
             MaxFailOps, MaxCrashes)

NextFail ==
    \/ Next
    \/ \E n \in {"a", "b"} : Crash(n)

SpecFail == InitFail /\ [][NextFail]_vars

\* The same two peers; the clients use a key that is the IP string of peer a
NextPeerKey ==
    \/ \E n \in {"a", "b"}, v \in {"v1"} : Store(n, "a", v, TRUE)
    \/ \E n \in {"a", "b"} : Remove(n, "a")
    \/ \E n \in {"a", "b"} : Stabilize(n)
    \/ \E n \in {"a", "b"} : FixFingers(n)
    \/ \E n \in {"a", "b"} : CheckPredecessor(n)
    \/ \E n \in {"a", "b"} : CheckDhtSuccessor(n)
    \/ \E n \in {"a", "b"} : DiscoverServers(n)

SpecPeerKey == Init /\ [][NextPeerKey]_vars

\* The same two peers; the clients store one key with and without overwrite
NextConflict ==
    \/ \E n \in {"a", "b"}, ow \in BOOLEAN : Store(n, "k2", "v1", ow)
    \/ \E n \in {"a", "b"} : Remove(n, "k2")
    \/ \E n \in {"a", "b"} : Stabilize(n)
    \/ \E n \in {"a", "b"} : FixFingers(n)
    \/ \E n \in {"a", "b"} : CheckPredecessor(n)
    \/ \E n \in {"a", "b"} : CheckDhtSuccessor(n)
    \/ \E n \in {"a", "b"} : DiscoverServers(n)

SpecConflict == Init /\ [][NextConflict]_vars

\* Peer a runs alone and holds keys that clients stored; peer b starts with a
\* as its entry peer; no client call follows
Stored == {<<>>, <<"k1">>, <<"k2">>, <<"k1", "k2">>, <<"k2", "k1">>}

InitJoin ==
    \E ks \in Stored :
        /\ alive = [n \in Node |-> n \in {"a", "b"}]
        /\ known = [n \in Node |-> IF n = "b" THEN <<"a">> ELSE <<>>]
        /\ predecessor = [n \in Node |-> None]
        /\ successor = [n \in Node |-> n]
        /\ fingers = [n \in Node |-> [i \in 0..(RingBits - 1) |-> NoFinger]]
        /\ next = [n \in Node |-> -1]
        /\ elems = [n \in Node |->
                       IF n = "a" THEN [i \in 1..Len(ks) |-> <<sha1_hash(ks[i]), "v1">>]
                       ELSE <<>>]
        /\ repl_elems = [n \in Node |-> <<>>]
        /\ removed_elems = [n \in Node |-> {}]
        /\ halted = {}
        /\ spinning = {}
        /\ repl_failed = {}
        /\ written = [k \in Key |->
                         IF \E i \in 1..Len(ks) : ks[i] = k
                         THEN [val |-> "v1", removed_at |-> "", joined |-> FALSE]
                         ELSE NotWritten]
        /\ ev = [op |-> IF ks = <<>> THEN "tick" ELSE "store",
                 node |-> IF ks = <<>> THEN "" ELSE "a",
                 key |-> IF ks = <<>> THEN "" ELSE ks[Len(ks)],
                 ok |-> TRUE,
                 msg |-> IF ks = <<>> THEN "" ELSE "Element stored",
                 at |-> IF ks = <<>> THEN "" ELSE "a",
                 tomb |-> FALSE, suppressed |-> {}, promoted |-> {}]
        /\ budget = [ops |-> 0, crashes |-> 0]
        /\ InitHost

NextJoin ==
    \/ \E n \in {"a", "b"} : Stabilize(n)
    \/ \E n \in {"a", "b"} : FixFingers(n)
    \/ \E n \in {"a", "b"} : CheckPredecessor(n)
    \/ \E n \in {"a", "b"} : CheckDhtSuccessor(n)
    \/ \E n \in {"a", "b"} : DiscoverServers(n)

SpecJoin == InitJoin /\ [][NextJoin]_vars

\* Peers a and b after each joined through the other (b's, then a's
\* check_dht_successor tick) and before any fix_fingers tick; the peers in up
\* are running
PairNodes(up, knows, ops, crashes) ==
    /\ alive = [n \in Node |-> n \in up]
    /\ known = knows
    /\ predecessor = [n \in Node |->
                         CASE n = "a" -> "b" [] n = "b" -> "a" [] OTHER -> None]
    /\ successor = [n \in Node |->
                       CASE n = "a" -> "b" [] n = "b" -> "a" [] OTHER -> n]
    /\ fingers = [n \in Node |-> [i \in 0..(RingBits - 1) |-> NoFinger]]
    /\ next = [n \in Node |-> -1]
    /\ elems = [n \in Node |-> <<>>]
    /\ repl_elems = [n \in Node |-> <<>>]
    /\ removed_elems = [n \in Node |-> {}]
    /\ halted = {}
    /\ spinning = {}
    /\ repl_failed = {}
    /\ written = [k \in Key |-> NotWritten]
    /\ ev = [op |-> "tick", node |-> "", key |-> "", ok |-> TRUE, msg |-> "",
             at |-> "", tomb |-> FALSE, suppressed |-> {}, promoted |-> {}]
    /\ budget = [ops |-> ops, crashes |-> crashes]

InitPair(up, knows, ops, crashes) ==
    /\ PairNodes(up, knows, ops, crashes)
    /\ InitHost

\* The ring of a and b, and peer c starting with a as its entry peer; no
\* client call
InitThird ==
    InitPair(Node,
             [n \in Node |-> CASE n = "a" -> <<"b">> [] n = "b" -> <<"a">>
                               [] OTHER -> <<"a">>],
             0, 0)

NextThird ==
    \/ \E n \in Node : Stabilize(n)
    \/ \E n \in Node : FixFingers(n)
    \/ \E n \in Node : CheckPredecessor(n)
    \/ \E n \in Node : CheckDhtSuccessor(n)
    \/ \E n \in Node : DiscoverServers(n)

SpecThird == InitThird /\ [][NextThird]_vars

\* Peers a and b run a fresh ChordNode each; b was started with the secret pb;
\* programs open sessions on the DHT listeners and call the ring surface
InitSession ==
    /\ FreshNodes({"a", "b"}, [n \in Node |-> IF n = "b" THEN <<"a">> ELSE <<>>],
                  MaxSessionCalls, 0)
    /\ \E pb \in Secret :
          InitHostWith([n \in Node |-> IF n = "b" THEN pb ELSE "secret"],
                       [n \in Node |-> 0])

NextSession ==
    \/ \E at \in {"a", "b"} : Connect(at)
    \/ \E i \in 1..MaxDhtSessions, pw \in Secret : Register(i, pw)
    \/ \E i \in 1..MaxDhtSessions, call \in RingCall : Call(i, call)
    \/ \E n \in {"a", "b"}, ip \in Node : Enter(n, ip)

SpecSession == InitSession /\ [][NextSession]_vars

\* Peer a alone in its ring, or the ring of a and b; each peer process drew
\* its hash seed when it started; clients connect and call, and b may stop
InitClient ==
    \E pair \in BOOLEAN, seeds \in [{"a", "b"} -> {0, 1}] :
        /\ IF pair
           THEN PairNodes({"a", "b"},
                          [n \in Node |-> CASE n = "a" -> <<"b">> [] n = "b" -> <<"a">>
                                            [] OTHER -> <<>>],
                          MaxClientCalls, MaxCrashes)
           ELSE FreshNodes({"a"}, [n \in Node |-> <<>>], MaxClientCalls, 0)
        /\ InitHostWith([n \in Node |-> "secret"],
                        [n \in Node |-> IF n \in {"a", "b"} THEN seeds[n] ELSE 0])

NextClient ==
    \/ \E at \in {"a", "b"} : ClientConnect(at)
    \/ \E i \in 1..MaxClientSessions, call \in ClientCall : ClientCalls(i, call)
    \/ \E n \in {"a", "b"} : Crash(n)

SpecClient == InitClient /\ [][NextClient]_vars

\* The ring of a and b with c starting through a, where a peer may stop
InitThirdFail ==
    InitPair(Node,
             [n \in Node |-> CASE n = "a" -> <<"b">> [] n = "b" -> <<"a">>
                               [] OTHER -> <<"a">>],
             0, MaxCrashes)

NextThirdFail ==
    \/ NextThird
    \/ \E n \in Node : Crash(n)

SpecThirdFail == InitThirdFail /\ [][NextThirdFail]_vars

\* The two peers of InitFail after a client removed one key at one of them,
\* which ran alone and so answered as the owner
InitTomb ==
    \E at \in {"a", "b"}, k \in {"k1", "k2"} :
        /\ alive = [n \in Node |-> n \in {"a", "b"}]
        /\ known = [n \in Node |-> IF n = "b" THEN <<"a">> ELSE <<>>]
        /\ predecessor = [n \in Node |-> None]
        /\ successor = [n \in Node |-> n]
        /\ fingers = [n \in Node |-> [i \in 0..(RingBits - 1) |-> NoFinger]]
        /\ next = [n \in Node |-> -1]
        /\ elems = [n \in Node |-> <<>>]
        /\ repl_elems = [n \in Node |-> <<>>]
        /\ removed_elems = [n \in Node |-> IF n = at THEN {sha1_hash(k)} ELSE {}]
        /\ halted = {}
        /\ spinning = {}
        /\ repl_failed = {}
        /\ written = [key \in Key |->
                         IF key = k
                         THEN [val |-> None, removed_at |-> at, joined |-> FALSE]
                         ELSE NotWritten]
        /\ ev = [op |-> "remove", node |-> at, key |-> k, ok |-> TRUE,
                 msg |-> "Element removed", at |-> at, tomb |-> FALSE,
                 suppressed |-> {}, promoted |-> {}]
        /\ budget = [ops |-> MaxFailOps, crashes |-> MaxCrashes]
        /\ InitHost

SpecTomb == InitTomb /\ [][NextFail]_vars

\* The ring of a and b after c joined through a (c's check_dht_successor
\* tick): c.successor = a and a.predecessor = c.  Clients store, a peer may
\* stop, and the successor setter of the stabilize thread runs statement by
\* statement.
InitChain ==
    /\ alive = [n \in Node |-> TRUE]
    /\ known = [n \in Node |-> CASE n = "a" -> <<"b">> [] n = "b" -> <<"a">>
                                  [] OTHER -> <<"a">>]
    /\ predecessor = [n \in Node |->
                         CASE n = "a" -> "c" [] n = "b" -> "a" [] OTHER -> None]
    /\ successor = [n \in Node |->
                       CASE n = "a" -> "b" [] n = "b" -> "a" [] OTHER -> "a"]
    /\ fingers = [n \in Node |-> [i \in 0..(RingBits - 1) |-> NoFinger]]
    /\ next = [n \in Node |-> -1]
    /\ elems = [n \in Node |-> <<>>]
    /\ repl_elems = [n \in Node |-> <<>>]
    /\ removed_elems = [n \in Node |-> {}]
    /\ halted = {}
    /\ spinning = {}
    /\ repl_failed = {}
    /\ written = [k \in Key |-> NotWritten]
    /\ ev = [op |-> "tick", node |-> "", key |-> "", ok |-> TRUE, msg |-> "",
             at |-> "", tomb |-> FALSE, suppressed |-> {}, promoted |-> {}]
    /\ budget = [ops |-> MaxClientOps, crashes |-> MaxCrashes]
    /\ InitHost

NextChain ==
    \/ \E n \in Node, k \in {"k1", "k2"}, v \in {"v1"} : Store(n, k, v, TRUE)
    \/ \E n \in Node : Crash(n)
    \/ \E n \in Node : EnterSetter(n)
    \/ \E n \in Node : CopyReplica(n)
    \/ \E n \in Node : ReplaceReplicas(n)

SpecChain == InitChain /\ [][NextChain]_vars

\* The two peers of Init; the clients store one key with either value
NextStale ==
    \/ \E n \in {"a", "b"}, v \in Value : Store(n, "k2", v, TRUE)
    \/ \E n \in {"a", "b"} : Stabilize(n)
    \/ \E n \in {"a", "b"} : FixFingers(n)
    \/ \E n \in {"a", "b"} : CheckPredecessor(n)
    \/ \E n \in {"a", "b"} : CheckDhtSuccessor(n)
    \/ \E n \in {"a", "b"} : DiscoverServers(n)

SpecStale == Init /\ [][NextStale]_vars

\* Three peers start a fresh ChordNode each and know each other; order gives,
\* per peer, the order of its peer table.  No peer stops; a client may store
\* one key.
InitConverge ==
    \E order \in [Node -> BOOLEAN] :
        InitRing(Node,
                 [n \in Node |->
                     CASE n = "a" -> IF order[n] THEN <<"b", "c">> ELSE <<"c", "b">>
                       [] n = "b" -> IF order[n] THEN <<"a", "c">> ELSE <<"c", "a">>
                       [] n = "c" -> IF order[n] THEN <<"a", "b">> ELSE <<"b", "a">>],
                 MaxFailOps, 0)

\* The loops that write the ring pointers (fix_fingers writes only fingers
\* and next) and the client store
NextConverge ==
    \/ \E n \in Node, k \in {"k1", "k2"} : Store(n, k, "v1", TRUE)
    \/ \E n \in Node : Stabilize(n)
    \/ \E n \in Node : CheckPredecessor(n)
    \/ \E n \in Node : CheckDhtSuccessor(n)

\* The iteration that leaves s changes the state
Moves(s) ==
    \/ \E f \in {"alive", "known", "predecessor", "successor", "fingers", "next",
                  "elems", "repl_elems", "removed_elems", "halted", "spinning",
                  "repl_failed", "disk"} : s[f] # Cur[f]
    \/ Tick(s) # ev

\* ENABLED <<Stabilize(n)>>_vars and ENABLED <<CheckDhtSuccessor(n)>>_vars
StabilizeEnabled(n) ==
    /\ Ticks(n, "stabilize")
    /\ \E io \in IoFor(n) : Moves(StabilizeTick(Cur, n, io))

RepairEnabled(n) ==
    /\ Ticks(n, "check_dht_successor")
    /\ \E io \in IoFor(n) : Moves(CheckDhtSuccessorTick(Cur, n, io))

\* Each worker thread sleeps a fixed interval between two iterations of its
\* loop (time.sleep in stabilize, check_predecessor and check_dht_successor),
\* so a loop whose thread lives is run again and again: weak fairness of the
\* three loops, written out for the two whose enabling condition is above
FairWorkers ==
    \A n \in Node :
        /\ WF_vars(CheckPredecessor(n))
        /\ []<>(~StabilizeEnabled(n)) \/ []<><<Stabilize(n)>>_vars
        /\ []<>(~RepairEnabled(n)) \/ []<><<CheckDhtSuccessor(n)>>_vars

SpecConverge == InitConverge /\ [][NextConverge]_vars /\ FairWorkers

\* The identifier space
Id == 0..(2 ^ RingBits - 1)

\* A call of _belongs with the identifiers value, lower and upper: ev holds the
\* arguments and the boolean returned
Belongs(value, lower, upper) ==
    /\ ev' = [op |-> "_belongs", node |-> "", key |-> "", msg |-> "", at |-> "",
              ok |-> _belongs(value, lower, upper),
              args |-> <<value, lower, upper>>,
              tomb |-> FALSE, suppressed |-> {}, promoted |-> {}]
    /\ UNCHANGED <<alive, known, predecessor, successor, fingers, next, elems,
                   repl_elems, removed_elems, halted, spinning, repl_failed,
                   written, budget, disk, host>>

\* Peer a runs alone; _belongs is called with any three identifiers
InitBelongs == InitRing({"a"}, [n \in Node |-> <<>>], 0, 0)

NextBelongs == \E value \in Id, lower \in Id, upper \in Id : Belongs(value, lower, upper)

SpecBelongs == InitBelongs /\ [][NextBelongs]_vars

-----------------------------------------------------------------------------
(* Vocabulary of the properties *)

\* The half-open arc (lower, upper] of the identifier circle
Arc(value, lower, upper) ==
    \/ lower < value /\ value <= upper
    \/ lower > upper /\ (lower < value \/ value <= upper)
    \/ lower = upper

Live == {n \in Node : alive[n]}

Holders(h) == {n \in Live : DictHas(elems[n], h)}

\* The two peers point at each other
TwoRing ==
    /\ successor["a"] = "b" /\ successor["b"] = "a"
    /\ predecessor["a"] = "b" /\ predecessor["b"] = "a"

FingersSettled(n) ==
    \A i \in 0..(RingBits - 1) :
        fingers[n][i] = IF FingerLookup(Cur, n, i).ok
                        THEN FingerLookup(Cur, n, i).ip ELSE NoFinger

\* No worker of a live peer has anything left to do
Quiescent ==
    /\ spinning = {}
    /\ \A n \in Live :
        /\ \A io \in IoFor(n) : StabilizeTick(Cur, n, io) = Cur
        /\ \A io \in IoFor(n) : CheckDhtSuccessorTick(Cur, n, io) = Cur
        /\ CheckPredecessorTick(Cur, n) = Cur
        /\ DiscoverLoop(Cur, n, known[n]) = Cur
        /\ FingersSettled(n)

-----------------------------------------------------------------------------
(* Properties *)

\* C1  Round-trip: once store(k, v) returned ok and no client store or remove
\* of k followed, find(k) at every peer of the ring returns ok with v.
C1_RoundTrip ==
    TwoRing =>
        \A k \in Key, n \in Live :
            written[k].val # None =>
                /\ find(Cur, n, k, FALSE, MaxHops).ok
                /\ find(Cur, n, k, FALSE, MaxHops).data = written[k].val

\* C2  Handoff law: when a peer accepts a new non-null predecessor, no key of
\* its elems that lies outside its new arc disappears from the system: after
\* the step some live peer holds the key in elems (or the handoff of the key
\* is still running, or a tombstone suppressed its store).
Displaced(n, h) ==
    /\ predecessor'[n] # predecessor[n]
    /\ predecessor'[n] # None
    /\ DictHas(elems[n], h)
    /\ ~Arc(h, sha1_hash(predecessor'[n]), sha1_hash(n))

Pending(n, h) ==
    \E task \in spinning : task.node = n /\ InSeq(h, task.keys)

C2_HandoffKeepsKeys ==
    [][\A n \in Node, h \in Hash :
          Displaced(n, h) =>
              \/ \E m \in Node : alive'[m] /\ DictHas(elems'[m], h)
              \/ Pending(n, h)'
              \/ \E m \in Node : <<m, h>> \in ev'.suppressed]_vars

\* C3  Key migration on join: peer a alone holds keys, peer b joins through a;
\* once the two peers point at each other and no worker has anything left to
\* do, find at either peer returns the stored value of every key and every
\* key is in the elems of exactly one of the two peers.
C3_MigrationOnJoin ==
    TwoRing /\ Quiescent =>
        \A k \in Key :
            written[k].val # None =>
                /\ \A n \in {"a", "b"} :
                      find(Cur, n, k, FALSE, MaxHops).data = written[k].val
                /\ Cardinality(Holders(sha1_hash(k))) = 1

\* C4  Remove law: after remove(k), issued at a peer that has joined, returned
\* ok and no client store of k followed, find(k) at the owner that removed it
\* and find(k) at that owner's successor return a null value.
C4_RemoveLaw ==
    \A k \in Key :
        written[k].removed_at # "" /\ written[k].joined =>
            /\ find(Cur, written[k].removed_at, k, FALSE, MaxHops).data = None
            /\ find(Cur, successor[written[k].removed_at], k, FALSE, MaxHops).data = None

\* The messages of a store that reached the peer find_successor names as owner
OwnerAnswers ==
    {"Element stored", "Element was removed in the past", "Element already exists"}

\* C5  Tombstone suppression: a store(k, v, check_removed=true) that reaches
\* the owner while hash(k) is in the owner's removed_elems returns ok=true
\* with the "removed in the past" message, leaves elems, repl_elems and
\* removed_elems as they were and sends no replica.
Suppresses(resp, hashed) ==
    resp.msg \in OwnerAnswers /\ hashed \in removed_elems[resp.at] =>
        /\ resp.ok
        /\ resp.msg = "Element was removed in the past"
        /\ resp.st.elems = elems
        /\ resp.st.repl_elems = repl_elems
        /\ resp.st.removed_elems = removed_elems
        /\ resp.st.repl_failed = repl_failed

C5_TombstoneSuppression ==
    \A n \in Live, h \in Hash, v \in Value :
        Suppresses(store(Cur, n, h, v, TRUE, TRUE, None, MaxHops), h)

\* A handoff store was suppressed by the tombstone of its owner
C5_Witness ==
    \E n \in Live, h \in Hash : <<n, h>> \in ev.suppressed /\ h \in removed_elems[n]

\* C6 as stated  Explicit re-insertion: a store(k, v) with check_removed=false
\* that reaches the owner while k is tombstoned writes elems[hash(k)] = v,
\* removes hash(k) from removed_elems and returns ok=true, and a following
\* find(k) at the owner returns v.
ReinsertsAndFinds(resp, elem_key, elem) ==
    resp.msg \in OwnerAnswers /\ sha1_hash(elem_key) \in removed_elems[resp.at] =>
        /\ resp.ok
        /\ DictGet(resp.st.elems[resp.at], sha1_hash(elem_key)) = elem
        /\ sha1_hash(elem_key) \notin resp.st.removed_elems[resp.at]
        /\ find(resp.st, resp.at, elem_key, FALSE, MaxHops).data = elem

Reinserts(resp, elem_key, elem) ==
    resp.msg \in OwnerAnswers /\ sha1_hash(elem_key) \in removed_elems[resp.at] =>
        /\ resp.ok
        /\ DictGet(resp.st.elems[resp.at], sha1_hash(elem_key)) = elem
        /\ sha1_hash(elem_key) \notin resp.st.removed_elems[resp.at]
        /\ find(resp.st, resp.at, elem_key, FALSE, MaxHops).data =
              IF DictHas(resp.st.repl_elems[resp.at], sha1_hash(elem_key))
              THEN DictGet(resp.st.repl_elems[resp.at], sha1_hash(elem_key))
              ELSE elem

PredecessorFailed(n) ==
    alive[n] /\ predecessor[n] # None /\ ~alive[predecessor[n]]

\* s is the state a check_predecessor tick of n leaves when n held repl
Promotes(s, n, repl) ==
    /\ s.predecessor[n] = None
    /\ s.repl_elems[n] = <<>>
    /\ \A i \in 1..Len(repl) : DictGet(s.elems[n], repl[i][1]) = repl[i][2]

FoundAt(s, n, repl) ==
    \A k \in Key :
        DictHas(repl, sha1_hash(k)) =>
            find(s, n, k, FALSE, MaxHops).data = DictGet(repl, sha1_hash(k))

\* C7 as stated  Predecessor failure: when the predecessor of N is unreachable,
\* N's next check_predecessor tick clears N.predecessor, moves every entry of
\* N.repl_elems into N.elems and empties N.repl_elems, and find for each of
\* those keys at any live peer then returns the value.
PromotesAndFinds(s, n) ==
    /\ Promotes(s, n, repl_elems[n])
    /\ \A m \in Live : FoundAt(s, m, repl_elems[n])

RECURSIVE FixFingersRound(_, _, _)
FixFingersRound(s, n, left) ==
    IF left = 0 THEN s
    ELSE FixFingersRound(FixFingersTick(s, n), n, left - 1)

\* C7  Predecessor failure, amended: the tick clears N.predecessor, moves every
\* entry of N.repl_elems into N.elems and empties N.repl_elems; find for each
\* of those keys at N returns the value once N's stabilize tick and a round
\* of fix_fingers ticks have dropped the unreachable peer from N.successor
\* and N.fingers.
PromotesThenFinds(s, n) ==
    /\ Promotes(s, n, repl_elems[n])
    /\ \A io \in IoOutcome :
          FoundAt(FixFingersRound(StabilizeTick(s, n, io), n, RingBits),
                  n, repl_elems[n])

Formed(s) ==
    /\ s.successor["a"] = "b" /\ s.successor["b"] = "a"
    /\ s.predecessor["a"] = "b" /\ s.predecessor["b"] = "a"

\* C8 as stated  Two-node join: after b joined through a, one stabilize tick on
\* each of a and b leaves a.successor = b, b.successor = a, a.predecessor = b
\* and b.predecessor = a.
C8_AsStated ==
    successor["b"] = "a" =>
        \A io \in IoOutcome :
            Formed(StabilizeTick(StabilizeTick(Cur, "b", io), "a", io))

\* C8  Two-node join, amended: after b joined through a, a.predecessor = b and
\* b.successor = a; a stabilize tick of a leaves the state as it is while
\* a.successor = a, and a stabilize tick of b changes no pointer of the ring;
\* a's check_dht_successor tick, once a knows b, leaves a.successor = b,
\* b.successor = a, a.predecessor = b and b.predecessor = a.
StabilizeLeavesRing(s) ==
    /\ s.successor = successor
    /\ s.predecessor = predecessor

C8_TwoNodeJoin ==
    successor["b"] = "a" /\ successor["a"] = "a" =>
        /\ predecessor["a"] = "b"
        /\ \A io \in IoOutcome :
              /\ StabilizeTick(Cur, "a", io) = Cur
              /\ StabilizeLeavesRing(StabilizeTick(Cur, "b", io))
        /\ InSeq("b", known["a"]) =>
              \A io \in IoFor("a") : Formed(CheckDhtSuccessorTick(Cur, "a", io))

\* a's check_dht_successor tick formed the ring of a and b
C8_Witness ==
    TwoRing /\ known["a"] = <<"b">> /\ known["b"] = <<"a">>

\* C9  Ownership invariant: in every quiescent state, for every peer N with a
\* predecessor and every key hash K in N.elems, K lies in the arc
\* (sha1(N.predecessor), N.node_id].
C9_Ownership ==
    Quiescent =>
        \A n \in Live :
            predecessor[n] # None =>
                \A h \in KeySet(elems[n]) :
                    Arc(h, sha1_hash(predecessor[n]), sha1_hash(n))

\* C10  Replica invariant: for every peer N with a successor S other than N
\* and every key K in N.elems, K is in S.repl_elems with the same value, or
\* the latest store_replica RPC from N to S for K failed.
C10_Replica ==
    \A n \in Live :
        successor[n] # n =>
            \A i \in 1..Len(elems[n]) :
                \/ DictGet(repl_elems[successor[n]], elems[n][i][1]) = elems[n][i][2]
                \/ <<n, successor[n], elems[n][i][1]>> \in repl_failed

\* C11  Disjointness: in every steady state of a ring of two peers (the peers
\* point at each other and no worker has anything left to do) no key hash is
\* at once in a peer's elems and in the same peer's repl_elems.
C11_Disjoint ==
    TwoRing /\ Quiescent =>
        \A n \in Live : KeySet(elems[n]) \cap KeySet(repl_elems[n]) = {}

\* C12  Tombstone monotonicity: a step takes a key hash out of a peer's
\* removed_elems only when it is a client store (check_removed=false) of that
\* key that this peer applied as owner; stores with check_removed=true,
\* store_replica, remove, remove_replica, handoff, promotion, stabilize,
\* notify and join never shrink removed_elems.
C12_TombstoneMonotone ==
    [][\A n \in Node, h \in Hash :
          h \in removed_elems[n] /\ h \notin removed_elems'[n] =>
              /\ ev'.op = "store"
              /\ ev'.at = n
              /\ sha1_hash(ev'.key) = h
              /\ ev'.msg = "Element stored"]_vars

\* A client store, applied by a peer that has a successor, took the tombstone
\* of its key out of the removed_elems of that peer
C12_Witness ==
    /\ ev.op = "store" /\ ev.msg = "Element stored" /\ ev.tomb
    /\ sha1_hash(ev.key) \notin removed_elems[ev.at]
    /\ successor[ev.at] # ev.at

\* C13  Idempotent replication: store_replica(k, v) applied twice in a row on
\* a peer leaves every field of the peer as applying it once does.
C13_IdempotentReplica ==
    \A n \in Node, h \in Hash, v \in Value :
        store_replica(store_replica(Cur, n, h, v, None), n, h, v, None)
            = store_replica(Cur, n, h, v, None)

\* A peer holds a replica, and a store_replica of another key on it adds an
\* entry once
C13_Witness ==
    \E n \in Live, h \in Hash :
        /\ repl_elems[n] # <<>>
        /\ ~DictHas(repl_elems[n], h)
        /\ Len(store_replica(store_replica(Cur, n, h, "v2", None), n, h, "v2", None)
                  .repl_elems[n])
              = Len(repl_elems[n]) + 1

\* C14  Conflict: a store(k, v, overwrite=false) that reaches the owner of k
\* while hash(k) is in the owner's elems returns ok=false with "Element already
\* exists" and leaves every field of every peer as it was; the peer the call
\* was issued at returns that outcome as it is when it forwarded the store.
Conflicts(resp, hashed) ==
    resp.msg \in OwnerAnswers /\ DictHas(elems[resp.at], hashed) =>
        /\ ~resp.ok
        /\ resp.msg = "Element already exists"
        /\ resp.data = None
        /\ resp.st = Cur

C14_Conflict ==
    \A n \in Live, h \in Hash, v \in Value :
        Conflicts(store(Cur, n, h, v, FALSE, FALSE, None, MaxHops), h)

\* A client store without overwrite was forwarded to the owner, which holds
\* the key, and came back with the conflict
C14_Witness ==
    /\ ev.op = "store" /\ ~ev.ok /\ ev.msg = "Element already exists"
    /\ ev.node # ev.at
    /\ DictHas(elems[ev.at], sha1_hash(ev.key))

\* The live peer that follows n clockwise among the peers in ring
ClockwiseNext(ring, n) ==
    LET after == {m \in ring : sha1_hash(m) > sha1_hash(n)}
    IN  IF after # {}
        THEN CHOOSE m \in after : \A o \in after : sha1_hash(m) <= sha1_hash(o)
        ELSE CHOOSE m \in ring : \A o \in ring : sha1_hash(m) <= sha1_hash(o)

\* The peers in ring form a ring whose finger tables the fix_fingers ticks
\* leave as they are
FingerTableStable(ring) ==
    /\ ring # {}
    /\ \A n \in ring : successor[n] = ClockwiseNext(ring, n) /\ FingersSettled(n)

NoRevisit(chain) ==
    \A i, j \in 1..Len(chain) : i # j => chain[i] # chain[j]

\* C17  find_successor terminates on a finger-table-stable ring: for every
\* peer of the ring and every identifier, the chain of forwarded find_successor
\* RPCs ends, visits no peer twice and so makes fewer hops than the ring has
\* peers.
C17_LookupTerminates ==
    \A ring \in SUBSET Live :
        FingerTableStable(ring) =>
            \A n \in ring, id \in 0..(2 ^ RingBits - 1) :
                /\ ~find_successor(Cur, n, id, MaxHops).loop
                /\ NoRevisit(FindSuccessorChain(Cur, n, id, MaxHops))
                /\ Len(FindSuccessorChain(Cur, n, id, MaxHops)) <= Cardinality(ring)

\* The three peers form a finger-table-stable ring in which a lookup is
\* forwarded twice
C17_Witness ==
    /\ FingerTableStable(Node)
    /\ \E n \in Node, id \in 0..(2 ^ RingBits - 1) :
          Len(FindSuccessorChain(Cur, n, id, MaxHops)) = 3

\* C15: acquiring a DHT session fails with ServiceConnectionError and hands out
\* no handle whenever the callee's secret differs from the caller's, and
\* whenever the callee is unreachable
C15_AcquisitionFails ==
    \A n \in Live, ip \in Node :
        passwd[ip] # passwd[n] \/ ~alive[ip] =>
            /\ DhtSessionEnter(passwd[n], ip).raised = "ServiceConnectionError"
            /\ ~DhtSessionEnter(passwd[n], ip).handle

\* C16: a ring call on a DHT listener session that has not completed register
\* with the secret of its peer is rejected as not registered and leaves the
\* ring state of the node as it was
C16_SecretGatesEntry ==
    \A i \in 1..Len(dht_sessions), call \in RingCall :
        ~dht_sessions[i].registered /\ alive[dht_sessions[i].at] =>
            /\ Exposed(Cur, dht_sessions[i], call).rejected
            /\ Exposed(Cur, dht_sessions[i], call).msg = "Not registered"
            /\ Exposed(Cur, dht_sessions[i], call).st = Cur

\* A ring of the one running peer n
Single(n) == alive[n] /\ successor[n] = n /\ predecessor[n] = None

LoginOk(res, username, password) ==
    /\ res.shape = "triple"
    /\ res.ok
    /\ res.session._username = username
    /\ res.session._passwd = password

WrongPassword(res, session) ==
    /\ res.shape = "triple"
    /\ ~res.ok
    /\ res.msg = "Wrong password"
    /\ res.session = session

AccountScenario(registered, username, password, other) ==
    /\ registered.shape = "triple"
    /\ registered.ok
    /\ \A session \in {registered.session,
                       NewClientSession(registered.session.at)} :
          /\ LoginOk(exposed_login(registered.st, session, username, password),
                     username, password)
          /\ WrongPassword(exposed_login(registered.st, session, username, other),
                           session)

\* C18: on a single-node ring, register(name, pw) for an unused name returns
\* ok, a following login(name, pw) returns ok, and a login(name, other) with
\* another password returns ok=false "Wrong password" and leaves the session
\* as it was (a session that was not logged in stays not logged in)
C18_AccountScenario ==
    \A i \in 1..Len(client_sessions), username \in User, password \in Password :
        /\ Single(client_sessions[i].at)
        /\ ~DictHas(elems[client_sessions[i].at], sha1_hash(username))
        => \A other \in Password \ {password} :
               AccountScenario(
                   client_exposed_register(Rings, client_sessions[i], username,
                                           password),
                   username, password, other)

C18_Witness ==
    /\ Single("a")
    /\ ev.op = "login"
    /\ ev.msg = "Wrong password"
    /\ DictHas(elems["a"], sha1_hash("alice"))
    /\ \E i \in 1..Len(client_sessions) :
          /\ client_sessions[i]._username = "alice"
          /\ \E j \in 1..Len(client_sessions) : client_sessions[j]._username = None

\* The download gives the bytes back
Yields(res, file) == res.shape = "triple" /\ res.ok /\ res.data = file

\* The data ring node of owner holds hashed with a persisted path whose file
\* is the uploaded one, and the successor of owner, when it is another peer
\* (and, with reachable, a running one), holds hashed in repl_elems
Placed(s, owner, hashed, file, reachable) ==
    /\ DictHas(s.elems[owner], hashed)
    /\ _is_path(s, owner, DictGet(s.elems[owner], hashed))
    /\ _load_element(s, owner, DictGet(s.elems[owner], hashed)) = file
    /\ (/\ s.successor[owner] # owner
        /\ reachable => s.alive[s.successor[owner]])
       => DictHas(s.repl_elems[s.successor[owner]], hashed)

RoundTrip(res, session, sys_path, file, reachable) ==
    res.shape = "triple" /\ res.ok =>
        /\ Yields(exposed_download(res.st, session, sys_path), file)
        /\ \E owner \in Node :
              /\ res.st.data.alive[owner]
              /\ find_successor(res.st.data, session.at,
                                sha1_hash(ElemKey(session._username, sys_path)),
                                MaxHops).ip = owner
              /\ Placed(res.st.data, owner,
                        sha1_hash(ElemKey(session._username, sys_path)), file,
                        reachable)

UploadsRoundTrip(reachable) ==
    \A i \in 1..Len(client_sessions), sys_path \in File, file \in Bytes :
        /\ alive[client_sessions[i].at]
        /\ client_sessions[i]._username # None
        /\ client_sessions[i]._passwd # None
        => RoundTrip(exposed_upload(Rings, client_sessions[i], file, sys_path),
                     client_sessions[i], sys_path, file, reachable)

\* C19 as stated: for a logged-in user an upload that returns ok is followed by
\* a download that yields the uploaded bytes, the data ring owner holds the key
\* with a persisted path and the owner's successor, if different from the
\* owner, holds the key in repl_elems
C19_AsStated == UploadsRoundTrip(FALSE)

\* C19: for a logged-in user an upload that returns ok is followed by a
\* download that yields the uploaded bytes, the data ring owner holds the key
\* with a persisted path and the owner's successor, if different from the
\* owner and reachable when the upload runs, holds the key in repl_elems
C19_UploadDownload == UploadsRoundTrip(TRUE)

C19_Witness ==
    /\ ev.op = "upload"
    /\ ev.ok
    /\ \E n \in Live, sys_path \in File :
          /\ successor[n] # n
          /\ DictGet(data_elems[n], sha1_hash(ElemKey("alice", sys_path)))
                = PersistPath("alice", sys_path)
          /\ DictHas(data_repl_elems[successor[n]],
                     sha1_hash(ElemKey("alice", sys_path)))
          /\ \E i \in 1..Len(client_sessions) :
                /\ client_sessions[i]._username = "alice"
                /\ Yields(exposed_download(Rings, client_sessions[i], sys_path),
                          "hello")

\* C20: every operation of the client listener resolves to a (data, ok, msg)
\* triple in every situation; none raises or returns another shape
C20_AlwaysTriple ==
    \A i \in 1..Len(client_sessions), call \in ClientCall :
        alive[client_sessions[i].at] =>
            ClientDispatch(Rings, client_sessions[i], call).shape = "triple"

\* C21: each maintenance loop of a running peer runs ticks forever: no worker
\* thread has ended and none is held in a tick that does not return, so the
\* next tick of every loop still runs
C21_WorkersRun ==
    \A n \in Live, thread \in Thread : Ticks(n, thread)

\* (lo < v <= hi) or (lo > hi and (v > lo or v <= hi))
InArc(v, lo, hi) ==
    \/ lo < v /\ v <= hi
    \/ lo > hi /\ (v > lo \/ v <= hi)

\* C22: for all identifiers v, lo, hi, _belongs(v, lo, hi) is true exactly when
\* (lo < v <= hi) or (lo > hi and (v > lo or v <= hi)); in particular it is
\* true for v = hi when the arc wraps around
C22_KeyRange ==
    ev.op = "_belongs" => (ev.ok <=> InArc(ev.args[1], ev.args[2], ev.args[3]))

\* The peer of ring whose identifier is the first one equal to or clockwise
\* from id
FirstFrom(ring, id) ==
    LET from == {m \in ring : sha1_hash(m) >= id}
    IN  IF from # {}
        THEN CHOOSE m \in from : \A o \in from : sha1_hash(m) <= sha1_hash(o)
        ELSE CHOOSE m \in ring : \A o \in ring : sha1_hash(m) <= sha1_hash(o)

RoutesTo(resp, ip) == resp.ok /\ resp.ip = ip

\* C23: on a ring of live peers with correct successor pointers and refreshed
\* finger tables, find_successor(id) called at any peer returns ok with the IP
\* of the peer whose identifier is the first one equal to or clockwise from id,
\* for every id of the identifier space
C23_Routing ==
    \A ring \in SUBSET Live :
        FingerTableStable(ring) =>
            \A n \in ring, id \in Id :
                RoutesTo(find_successor(Cur, n, id, MaxHops), FirstFrom(ring, id))

\* What notify(node_ip) at n is to do: take node_ip as the predecessor
Accepts(n, node_ip) ==
    \/ predecessor[n] = None
    \/ /\ node_ip # predecessor[n]
       /\ InArc(sha1_hash(node_ip), sha1_hash(predecessor[n]), sha1_hash(n))

StabilizedSuccessor(n) ==
    IF successor[n] = n \/ ~alive[successor[n]] THEN n
    ELSE IF /\ predecessor[successor[n]] # None
            /\ InArc(sha1_hash(predecessor[successor[n]]), sha1_hash(n),
                     sha1_hash(successor[n]))
    THEN predecessor[successor[n]]
    ELSE successor[n]

\* C25: a stabilize tick does nothing when successor equals self; otherwise it
\* adopts the successor's predecessor p as the new successor exactly when p is
\* non-null and sha1(p) lies in (node_id, sha1(successor)]; and when the
\* successor cannot be reached the tick resets successor to self
C25_Stabilize ==
    \A n \in Live : \A io \in IoFor(n) :
        /\ successor[n] = n => StabilizeTick(Cur, n, io) = Cur
        /\ StabilizeTick(Cur, n, io).successor[n] = StabilizedSuccessor(n)

C25_Witness ==
    /\ \E n \in Live :
          /\ successor[n] # n
          /\ alive[successor[n]]
          /\ StabilizedSuccessor(n) # successor[n]
    /\ \E n \in Live : successor[n] # n /\ ~alive[successor[n]]

\* The state a stabilize tick of n is in after its adoption step
Adopted(s, n, io) ==
    IF /\ s.predecessor[s.successor[n]] # None
       /\ _belongs(sha1_hash(s.predecessor[s.successor[n]]), sha1_hash(n),
                   sha1_hash(s.successor[n]))
    THEN set_successor(s, n, s.predecessor[s.successor[n]], io)
    ELSE s

NotifiesSuccessorOf(s, n) == NotifySuccessor(s, n, s.successor[n])

\* C26: in a stabilize tick, after the adoption step, notify(self.ip) is
\* delivered to the node that is the successor at that point: to the newly
\* adopted p when the tick adopted one, to the unchanged successor otherwise
C26_NotifyAfterAdoption ==
    \A n \in Live : \A io \in IoFor(n) :
        /\ successor[n] # n
        /\ alive[successor[n]]
        /\ alive[Adopted(Cur, n, io).successor[n]]
        => StabilizeTick(Cur, n, io) = NotifiesSuccessorOf(Adopted(Cur, n, io), n)

FingerOf(resp) == IF resp.ok THEN resp.ip ELSE NoFinger

\* C27: a fix_fingers tick advances next to (next + 1) mod RingBits and sets
\* fingers[next] to the result of find_successor on the identifier
\* (node_id + 2^next - 1) reduced mod 2^RingBits, which lies in the identifier
\* space, or to empty when the lookup fails
C27_FixFingers ==
    \A n \in Live :
        /\ FixFingersTick(Cur, n).next[n] = (next[n] + 1) % RingBits
        /\ FingerStart(n, NextFinger(Cur, n)) \in Id
        /\ FixFingersTick(Cur, n).fingers[n][NextFinger(Cur, n)]
              = FingerOf(find_successor(Cur, n,
                                        FingerStart(n, NextFinger(Cur, n))
                                            % (2 ^ RingBits),
                                        MaxHops))

\* join(joiner) at a bootstrap that is alone: the joiner becomes the
\* predecessor and the bootstrap's IP is returned
JoinsAlone(resp, n, joiner) ==
    resp.ok /\ resp.data = n /\ resp.st.predecessor[n] = joiner

\* join(joiner) at a bootstrap whose ring has the members ring: the IP
\* returned is the ring successor of the joiner's identifier, and the joiner
\* becomes the bootstrap's predecessor only if the bootstrap is that successor
JoinsRing(resp, ring, n, joiner) ==
    /\ resp.ok
    /\ resp.data = FirstFrom(ring, sha1_hash(joiner))
    /\ n # FirstFrom(ring, sha1_hash(joiner)) =>
          resp.st.predecessor[n] = predecessor[n]

\* C28: join(joiner) handled by a bootstrap: alone in its ring, the bootstrap
\* sets its predecessor to the joiner and returns its own IP; in a ring with
\* other members, the IP returned is the ring successor of the joiner's
\* identifier and the bootstrap's predecessor is not replaced by the joiner
\* unless the bootstrap is that successor
C28_Join ==
    \A ring \in SUBSET Live :
        FingerTableStable(ring) =>
            \A n \in ring : \A joiner \in Live \ ring :
                IF ring = {n}
                THEN JoinsAlone(join(Cur, n, joiner, MaxHops), n, joiner)
                ELSE JoinsRing(join(Cur, n, joiner, MaxHops), ring, n, joiner)

\* The join of n against the known peer m returns ok
Joins(n, m) ==
    /\ alive[m]
    /\ join(Cur, m, n, MaxHops).ok
    /\ join(Cur, m, n, MaxHops).st.exc = "none"

\* The repair tick of n stopped at the first known peer whose join returned ok
StopsAtFirst(tick, n) ==
    \A i \in 1..Len(known[n]) :
        Joins(n, known[n][i]) /\ (\A k \in 1..(i - 1) : ~Joins(n, known[n][k])) =>
            /\ tick.successor[n] = join(Cur, known[n][i], n, MaxHops).data
            /\ \A j \in (i + 1)..Len(known[n]) :
                  tick.predecessor[known[n][j]] = predecessor[known[n][j]]

\* C29: a repair tick of a peer whose successor is itself and that knows peers
\* attempts join(self.ip) against the known peers one at a time and stops at the
\* first that returns ok: that IP becomes the successor and no further known
\* peer has its predecessor changed; when successor differs from self, or no
\* peer is known, the tick changes nothing
C29_Repair ==
    \A n \in Live : \A io \in IoFor(n) :
        IF successor[n] # n \/ known[n] = <<>>
        THEN CheckDhtSuccessorTick(Cur, n, io) = Cur
        ELSE StopsAtFirst(CheckDhtSuccessorTick(Cur, n, io), n)

\* remove(hashed) run at n left the key out of elems and repl_elems of n and of
\* the replicas of a running successor, and left the tombstone
RemovedAt(resp, n, hashed) ==
    /\ resp.ok
    /\ resp.msg = "Element removed"
    /\ ~DictHas(resp.st.elems[n], hashed)
    /\ ~DictHas(resp.st.repl_elems[n], hashed)
    /\ hashed \in resp.st.removed_elems[n]
    /\ alive[successor[n]] => ~DictHas(resp.st.repl_elems[successor[n]], hashed)

\* C30: remove(k) executed at the owner deletes hash(k) from the owner's elems
\* and repl_elems, adds hash(k) to removed_elems and asks the successor to
\* remove its replica; when the successor cannot be reached the remove still
\* returns ok with the local deletion and the tombstone in place
C30_RemoveAtOwner ==
    \A n \in Live, h \in Hash :
        RoutesTo(find_successor(Cur, n, h, MaxHops), n) =>
            RemovedAt(remove(Cur, n, h, MaxHops), n, h)

C30_Witness ==
    /\ ev.op = "remove"
    /\ ev.ok
    /\ ev.msg = "Element removed"
    /\ ev.at = ev.node
    /\ successor[ev.at] # ev.at
    /\ ~alive[successor[ev.at]]
    /\ sha1_hash(ev.key) \in removed_elems[ev.at]

\* store(hashed, elem) run at the owner n wrote the primary and, with no
\* successor to reach, no replica
StoredAt(resp, n, hashed, elem) ==
    /\ resp.ok
    /\ resp.msg = "Element stored"
    /\ DictGet(resp.st.elems[n], hashed) = elem
    /\ successor[n] = n \/ ~alive[successor[n]] => resp.st.repl_elems = repl_elems
    /\ successor[n] = n => resp.st.repl_failed = repl_failed

\* C31: a store applied at the owner returns ok=true and keeps the primary
\* write in the owner's elems when the store_replica call to the owner's
\* successor fails with a connection error; when the owner's successor is the
\* owner itself no replica call is made
C31_BestEffortReplica ==
    \A n \in Live, h \in Hash, v \in Value :
        RoutesTo(find_successor(Cur, n, h, MaxHops), n) =>
            StoredAt(store(Cur, n, h, v, TRUE, FALSE, None, MaxHops), n, h, v)

C31_Witness ==
    /\ ev.op = "store"
    /\ ev.ok
    /\ ev.at = ev.node
    /\ successor[ev.at] # ev.at
    /\ ~alive[successor[ev.at]]
    /\ DictGet(elems[ev.at], sha1_hash(ev.key)) = written[ev.key].val
    /\ <<ev.at, successor[ev.at], sha1_hash(ev.key)>> \in repl_failed

\* C32: find(k) evaluated at the node that find_successor designates as the
\* owner returns a null value whenever hash(k) is in that node's removed_elems
\* and not in its repl_elems, even if hash(k) is present in its elems
C32_TombstonedFind ==
    \A n \in Live, k \in Key :
        /\ RoutesTo(find_successor(Cur, n, sha1_hash(k), MaxHops), n)
        /\ sha1_hash(k) \in removed_elems[n]
        /\ ~DictHas(repl_elems[n], sha1_hash(k))
        => /\ find(Cur, n, k, FALSE, MaxHops).ok
           /\ find(Cur, n, k, FALSE, MaxHops).data = None

\* Every key of the elems of n is a replica at to with the same value: the
\* same entry, and the same bytes where the entry names a file
Replicated(s, n, to) ==
    \A i \in 1..Len(s.elems[n]) :
        /\ DictGet(s.repl_elems[to], s.elems[n][i][1]) = s.elems[n][i][2]
        /\ _is_path(s, n, s.elems[n][i][2]) =>
              _load_element(s, to, s.elems[n][i][2])
                  = _load_element(s, n, s.elems[n][i][2])

\* The successor setter of n, run with succ, has ended: it returned or left
\* with an exception
SetterEnded(s) == s.exc \in {"none", "raise"}

\* C33: whenever the successor of a node changes to a reachable node S other
\* than the node itself, once the successor setter has ended every key of the
\* node's elems is in S.repl_elems with the same value
C33_Rereplication ==
    \A n \in Live : \A to \in Live \ {n, successor[n]} : \A io \in IoFor(n) :
        SetterEnded(set_successor(Cur, n, to, io)) =>
            Replicated(set_successor(Cur, n, to, io), n, to)

\* The fields of the ring node of n
Fields(n) ==
    <<predecessor[n], successor[n], elems[n], repl_elems[n], removed_elems[n]>>

\* C34: on one ring node, a predecessor or successor change together with its
\* promotion logic is atomic with respect to every other thread and inbound
\* RPC on that node: between the start of the setter and its end no other
\* step writes a field of the node, and no replica stored during a promotion
\* is lost (when the setter replaces repl_elems, every key it held is in elems)
C34_SetterAtomic ==
    [][\A n \in Node :
          setter[n].pc # "idle" =>
              /\ setter'[n] = setter[n] => Fields(n)' = Fields(n)
              /\ setter'[n].pc = "idle" /\ successor'[n] = n =>
                    \A i \in 1..Len(repl_elems[n]) :
                        DictGet(elems'[n], repl_elems[n][i][1]) = repl_elems[n][i][2]]_vars

\* The stabilize tick of n finds its successor unreachable while its
\* predecessor is running
SuccessorFailedOnly(n) ==
    /\ successor[n] # n
    /\ ~alive[successor[n]]
    /\ predecessor[n] # None
    /\ alive[predecessor[n]]

\* C36: replicas are promoted from repl_elems into elems only when the node's
\* predecessor is cleared because it failed; a stabilize tick that resets the
\* successor to self (successor unreachable, predecessor still alive) moves no
\* key from repl_elems into elems
C36_PromotionOnlyOnPredecessorFailure ==
    \A n \in Live : \A io \in IoFor(n) :
        SuccessorFailedOnly(n) /\ setter[n].pc = "idle" =>
            /\ StabilizeTick(Cur, n, io).successor[n] = n
            /\ StabilizeTick(Cur, n, io).elems[n] = elems[n]
            /\ StabilizeTick(Cur, n, io).repl_elems[n] = repl_elems[n]

\* The routing of the identifier hashed, started at n, meets a peer that
\* does not answer: the peer find_successor forwards to, or the owner it names
RECURSIVE HopFails(_, _, _)
HopFailsAfter(n, hashed, hops, succ) ==
    IF ~succ.ok THEN ~succ.loop
    ELSE IF succ.ip = n THEN FALSE
    ELSE IF ~alive[succ.ip] THEN TRUE
    ELSE hops > 0 /\ HopFails(succ.ip, hashed, hops - 1)

HopFails(n, hashed, hops) ==
    HopFailsAfter(n, hashed, hops, find_successor(Cur, n, hashed, MaxHops))

\* The same for find, which answers from repl_elems before it routes
RECURSIVE FindHopFails(_, _, _)
FindHopFailsAfter(n, hashed, hops, succ) ==
    IF ~succ.ok THEN ~succ.loop
    ELSE IF succ.ip = n THEN FALSE
    ELSE IF ~alive[succ.ip] THEN TRUE
    ELSE hops > 0 /\ FindHopFails(succ.ip, hashed, hops - 1)

FindHopFails(n, hashed, hops) ==
    /\ ~DictHas(repl_elems[n], hashed)
    /\ FindHopFailsAfter(n, hashed, hops, find_successor(Cur, n, hashed, MaxHops))

Refused(resp) == ~resp.ok /\ resp.st = Cur

\* C35: when a hop of the routing of a client-driven store, remove or find
\* fails with a connection error, the operation returns ok=false to the caller
\* and no node's elems, repl_elems or removed_elems is changed by it
C35_RoutingFailure ==
    \A n \in Live, k \in Key :
        /\ HopFails(n, sha1_hash(k), MaxHops) =>
              /\ Refused(remove(Cur, n, sha1_hash(k), MaxHops))
              /\ \A v \in Value :
                    Refused(store(Cur, n, sha1_hash(k), v, TRUE, FALSE, None, MaxHops))
        /\ FindHopFails(n, sha1_hash(k), MaxHops) =>
              Refused(find(Cur, n, k, FALSE, MaxHops))

C35_Witness ==
    /\ ev.op \in {"store", "remove"}
    /\ ~ev.ok
    /\ alive[ev.node]
    /\ HopFails(ev.node, sha1_hash(ev.key), MaxHops)
    /\ \A n \in Node : ~DictHas(elems[n], sha1_hash(ev.key))
    /\ \A n \in Node : sha1_hash(ev.key) \notin removed_elems[n]

\* The handler chain that ended in state s returned from every handoff pass
\* it ran: no pass is left looping in _update_elements
Returned(s) == s.exc # "stuck"

\* C37: every ownership-handoff pass (_update_elements over elems or
\* repl_elems, triggered by a predecessor change) terminates and returns
\* control to its caller (join, notify or check_predecessor), also when the
\* re-insertion store returns ok=false
C37_HandoffTerminates ==
    /\ spinning = {}
    /\ \A n \in Live :
          /\ \A c \in Live \ {n} :
                /\ Returned(notify(Cur, n, c))
                /\ Returned(join(Cur, n, c, MaxHops).st)
          /\ PredecessorFailed(n) =>
                Returned(_update_repl_elements(set_predecessor(Cur, n, None), n))

\* The peer n holds, as the owner its own find_successor names, the value of
\* the last client store of k
HoldsLatest(n, k) ==
    /\ written[k].val # None
    /\ RoutesTo(find_successor(Cur, n, sha1_hash(k), MaxHops), n)
    /\ DictGet(elems[n], sha1_hash(k)) = written[k].val

\* C38: after a client store(k, v2) has been applied at the owner, no
\* replication-driven re-store (the check_removed=true store of a handoff
\* pass) replaces the owner's value of k with an older value: a step of the
\* maintenance workers leaves the owner's entry of k, while it has one, at v2
C38_NoStaleOverwrite ==
    [][\A n \in Node, k \in Key :
          /\ ev'.op = "tick"
          /\ HoldsLatest(n, k)
          /\ DictHas(elems'[n], sha1_hash(k))
          => DictGet(elems'[n], sha1_hash(k)) = written[k].val]_vars

\* After the register call that gave registered, the login with the same
\* password succeeds in a new session at peer at, and the login with the
\* password other fails there
LoginThrough(registered, at, username, password, other) ==
    /\ LoginOk(exposed_login(registered.st, NewClientSession(at), username,
                             password),
               username, password)
    /\ ~exposed_login(registered.st, NewClientSession(at), username, other).ok

\* C39: after register(name, pw) succeeded through peer A, login(name, pw)
\* with the same password succeeds through every live peer B of the cluster
\* (the digest B compares equals the one A stored), and login with another
\* password fails through every peer
C39_LoginThroughAnyPeer ==
    \A i \in 1..Len(client_sessions), username \in User, password \in Password :
        /\ alive[client_sessions[i].at]
        /\ client_exposed_register(Rings, client_sessions[i], username,
                                   password).shape = "triple"
        /\ client_exposed_register(Rings, client_sessions[i], username,
                                   password).ok
        => \A at \in Live, other \in Password \ {password} :
               LoginThrough(
                   client_exposed_register(Rings, client_sessions[i], username,
                                           password),
                   at, username, password, other)

\* The live peer that precedes n clockwise among the peers in ring
ClockwisePrevious(ring, n) ==
    CHOOSE m \in ring : ClockwiseNext(ring, m) = n

\* Every running peer points at its clockwise neighbours among the running peers
Converged ==
    \A n \in Live :
        /\ successor[n] = ClockwiseNext(Live, n)
        /\ predecessor[n] = ClockwisePrevious(Live, n)

\* C40: three running peers that all know each other, no failure, every
\* maintenance loop scheduled fairly: the ring eventually reaches and stays in
\* a state where every node's successor is the next live node clockwise and
\* every node's predecessor is the previous live node, whatever the order of
\* the peer tables
C40_RingConverges == <>[]Converged

====
